---- MODULE Spec2Model ----
(***************************************************************************)
(* Alarm clock: the alarm controller (controllers/alarm_controller.py)     *)
(* and the Alarm record (models/alarm_model.py).                           *)
(*                                                                         *)
(* The wall clock is counted in ticks of one polling interval (the 30 s    *)
(* wait of _check_alarms_loop), so a minute is TicksPerMinute ticks.  A    *)
(* day is shortened to DayMinutes minutes; weekdays keep their 7 values.   *)
(* A time string is a record [hhmm, padded]: hhmm is the minute of the day *)
(* the string denotes, padded tells whether it is written the way strftime *)
(* writes it ("07:30") or in another form strptime accepts ("7:30").       *)
(***************************************************************************)
EXTENDS Integers, FiniteSets, Sequences, TLC

\* ---------------------------------------------------------------- bounds
MaxAlarms == 2
DayMinutes == 2
MaxNow == 5
MaxSnoozeCount == 2
MaxCalls == 3
MaxSnoozeDuration == 1
MaxRecords == 3

\* ------------------------------------------------------ program constants
TicksPerMinute == 2
Weekdays == 7
DefaultSnoozeDuration == 5

(***************************************************************************)
(* alarms        self.alarms: alarm id -> Alarm                            *)
(* nextId        the next fresh id (uuid4 never repeats an id)             *)
(* now           the wall clock, in ticks                                  *)
(* pc            the poll loop: "new" before the controller is built,      *)
(*               "check" at the loop test, "body" past the test with the   *)
(*               iteration still to run, "wait" in the 30 s wait after an  *)
(*               iteration, "done" when the loop has ended                 *)
(* current_time  the timestamp the latest poll iteration read              *)
(* triggered     the _trigger_alarm calls of the latest poll iteration, in *)
(*               order, each with the branch that decided it               *)
(* call          the latest controller call or poll iteration: operation,  *)
(*               id and time argument, return value, and the alarm it      *)
(*               found under the id                                        *)
(* calls         number of controller calls made so far                    *)
(* phase         history per alarm: "quiet" (never fired), "fired", or     *)
(*               "snoozed" (fired, then snoozed, and no stop, toggle or    *)
(*               time edit since)                                          *)
(* fires         per alarm, the _trigger_alarm calls for it in the current *)
(*               wall-clock minute                                         *)
(* data_file     the content of alarms.json                                *)
(* disk          what the next write to alarms.json meets: "ok", "denied"  *)
(*               (open fails, the file keeps its content) or "torn" (the   *)
(*               file is truncated and the dump fails part-way)            *)
(* audio         what is active in the audio and notification managers:    *)
(*               a subset of {"sound", "vibration", "notification"}        *)
(* on_alarm_stopped  whether the UI has registered its "stopped" callback  *)
(* stopped_args  the arguments on_alarm_stopped was invoked with by the    *)
(*               latest controller call, in order                          *)
(* upd           the update_alarm call that has assigned its fields and    *)
(*               not yet reached its snooze reset, if there is one         *)
(* backup_file   the content of alarms.json.bak                            *)
(* stop_checking the flag stop() sets and the poll loop tests              *)
(* model_alarms  AlarmModel.alarms, once an AlarmModel is constructed: the *)
(*               list of the other store class, which reads and writes the *)
(*               same two files                                            *)
(* raised        whether the latest constructor (AlarmController() or      *)
(*               AlarmModel()) let an exception out of its load            *)
(* data          the dictionary handed to Alarm.from_dict, if any          *)
(* decoded       what Alarm.from_dict made of data, if it was called       *)
(* poll          the locals of the poll thread inside an iteration that is *)
(*               taken statement by statement: the size the dictionary had *)
(*               when the iterator was made, the id fetched last, the      *)
(*               alarm object in hand once its id has left the dictionary, *)
(*               the branch that set should_trigger, and the document      *)
(*               _save_alarms has built and not yet written                *)
(* broken        whether the audio and notification managers raise when    *)
(*               they are called                                           *)
(* notified      the alarms on_alarm_triggered was invoked with by the     *)
(*               latest poll iteration, in order                           *)
(***************************************************************************)
VARIABLES alarms, nextId, now, pc, current_time, triggered, call, calls, phase, fires,
          data_file, disk, audio, on_alarm_stopped, stopped_args, upd,
          backup_file, stop_checking, model_alarms, raised, data, decoded,
          poll, broken, notified

vars == <<alarms, nextId, now, pc, current_time, triggered, call, calls, phase, fires,
          data_file, disk, audio, on_alarm_stopped, stopped_args, upd,
          backup_file, stop_checking, model_alarms, raised, data, decoded,
          poll, broken, notified>>

\* ------------------------------------------------------------ data model
None == <<>>
Some(v) == <<v>>
Opt(S) == {None} \cup {Some(v) : v \in S}

AlarmIds == 1..MaxAlarms

\* "HH:MM" as strftime writes it, for every minute of the day
Padded == [hhmm : 0..(DayMinutes - 1), padded : {TRUE}]
\* a string strptime accepts that strftime never writes ("0:00")
Unpadded == [hhmm |-> 0, padded |-> FALSE]
\* a string strptime rejects ("25:61")
BadTime == [hhmm |-> DayMinutes, padded |-> TRUE]
TimeStrings == Padded \cup {Unpadded, BadTime}
RepeatChoices == {{}, {0, 2, 4}}
SnoozeDurations == 0..MaxSnoozeDuration
\* audio_manager.default_sound_file
DefaultSound == "default_alarm.wav"

\* datetime.strptime(time_str, "%H:%M") succeeds
strptime_ok(s) == s.hhmm \in 0..(DayMinutes - 1)

\* current_time.strftime("%H:%M")
strftime(t) == [hhmm |-> (t \div TicksPerMinute) % DayMinutes, padded |-> TRUE]

\* current_time.weekday()
weekday(t) == ((t \div TicksPerMinute) \div DayMinutes) % Weekdays

\* the wall-clock minute a timestamp lies in
MinuteOf(t) == t \div TicksPerMinute

\* datetime.now() + timedelta(minutes=snooze_minutes)
timedelta_minutes(t, m) == t + m * TicksPerMinute

\* a datetime is its tick count; one that carries a UTC offset is marked
Aware(t) == <<t, "utc">>
\* current_time >= alarm.next_trigger raises TypeError (naive against aware)
Incomparable(nt) == Len(nt) = 2

\* Alarm(time=..., label=..., ...) with the dataclass defaults for the rest
Alarm(time_str, label, repeat_days, sound_file, snooze_duration, vibrate) ==
  [time |-> time_str, label |-> label, enabled |-> TRUE, repeat_days |-> repeat_days,
   sound_file |-> sound_file, snooze_duration |-> snooze_duration, vibrate |-> vibrate,
   snooze_count |-> 0, next_trigger |-> None]

\* next_trigger.isoformat()
isoformat(nt) == <<"T">> \o nt

\* datetime.fromisoformat(s) succeeds; a string that is no timestamp has
\* another length
fromisoformat_ok(s) == Len(s) \in {2, 3} /\ s[1] = "T"

\* datetime.fromisoformat(s)
fromisoformat(s) == Tail(s)

\* the field names of the dataclass
Fields ==
  {"time", "label", "enabled", "repeat_days", "sound_file", "snooze_duration",
   "vibrate", "snooze_count", "next_trigger", "id"}

\* to_dict() writing null for every next_trigger
to_dict_NullTrigger(id, a) ==
  [time |-> a.time, label |-> a.label, enabled |-> a.enabled,
   repeat_days |-> a.repeat_days, sound_file |-> a.sound_file,
   snooze_duration |-> a.snooze_duration, vibrate |-> a.vibrate,
   snooze_count |-> a.snooze_count,
   next_trigger |-> None,
   id |-> id]

\* Alarm.to_dict() of the alarm a that carries the id id: a dictionary is a
\* function from its keys to their values
to_dict(id, a) ==
  [time |-> a.time, label |-> a.label, enabled |-> a.enabled,
   repeat_days |-> a.repeat_days, sound_file |-> a.sound_file,
   snooze_duration |-> a.snooze_duration, vibrate |-> a.vibrate,
   snooze_count |-> a.snooze_count,
   next_trigger |-> IF a.next_trigger # None THEN isoformat(a.next_trigger) ELSE None,
   id |-> id]

\* data.get(f, default)
Field(d, f, default) == IF f \in DOMAIN d THEN d[f] ELSE default

\* cls(**data) raises TypeError: a key that is no field of the dataclass is
\* left after 'emoji' was deleted, or the one field without a default is
\* missing
TypeError(d) == ~((DOMAIN d \ {"emoji"}) \subseteq Fields) \/ "time" \notin DOMAIN d

\* Alarm.from_dict(data) where it does not raise: the id and the alarm.
\* fresh is the id __post_init__ draws when data carries none.
from_dict_DropTrigger(d, fresh) ==
  [id |-> Field(d, "id", fresh),
   alarm |-> [time |-> d.time,
              label |-> Field(d, "label", ""),
              enabled |-> Field(d, "enabled", TRUE),
              repeat_days |-> Field(d, "repeat_days", {}),
              sound_file |-> Field(d, "sound_file", DefaultSound),
              snooze_duration |-> Field(d, "snooze_duration", DefaultSnoozeDuration),
              vibrate |-> Field(d, "vibrate", TRUE),
              snooze_count |-> Field(d, "snooze_count", 0),
              next_trigger |-> None]]

from_dict(d, fresh) ==
  LET nt == Field(d, "next_trigger", None)
  IN [id |-> Field(d, "id", fresh),
      alarm |-> [time |-> d.time,
                 label |-> Field(d, "label", ""),
                 enabled |-> Field(d, "enabled", TRUE),
                 repeat_days |-> Field(d, "repeat_days", {}),
                 sound_file |-> Field(d, "sound_file", DefaultSound),
                 snooze_duration |-> Field(d, "snooze_duration", DefaultSnoozeDuration),
                 vibrate |-> Field(d, "vibrate", TRUE),
                 snooze_count |-> Field(d, "snooze_count", 0),
                 next_trigger |-> IF nt # None /\ fromisoformat_ok(nt)
                                    THEN fromisoformat(nt) ELSE None]]

Known == DOMAIN alarms

\* the alarm an operation finds under alarm_id (self.alarms.get(alarm_id))
Before(alarm_id) == IF alarm_id \in Known THEN Some(alarms[alarm_id]) ELSE None

Put(f, k, v) == [x \in (DOMAIN f) \cup {k} |-> IF x = k THEN v ELSE f[x]]
Drop(f, k) == [x \in (DOMAIN f) \ {k} |-> f[x]]

\* ---------------------------------------------------------- _save_alarms
\* the document json.dump writes for the alarm set mem
\* self.alarms.values(): a dict keeps insertion order, and ids are handed
\* out in ascending order
RECURSIVE values(_)
values(ids) ==
  IF ids = {} THEN <<>>
  ELSE LET first == CHOOSE x \in ids : \A y \in ids : x <= y
       IN <<first>> \o values(ids \ {first})

Document(mem) ==
  LET ids == values(DOMAIN mem)
  IN [state |-> "valid", alarms |-> [i \in 1..Len(ids) |-> to_dict(ids[i], mem[ids[i]])]]
NoFile == [state |-> "absent", alarms |-> <<>>]
Corrupt == [state |-> "corrupt", alarms |-> <<>>]

\* alarms.json after _save_alarms() ran with the alarm set mem; every
\* exception is caught inside, so the caller never sees the outcome
Saved(mem) ==
  CASE disk = "ok" -> Document(mem)
    [] disk = "denied" -> data_file
    [] disk = "torn" -> Corrupt

\* alarms.json.bak after _save_alarms(): the copy of alarms.json taken before
\* the write, if alarms.json existed
BackedUp == IF data_file.state = "absent" THEN backup_file ELSE data_file

\* ------------------------------------------------ audio and notifications
Silent == {}
\* stop_alarm_sound(), stop_vibration(), clear_alarm_notification()
StopAudio == Silent
\* play_alarm_sound, start_vibration if alarm.vibrate, show_alarm_notification
Ring(active, a) ==
  active \cup {"sound", "notification"} \cup (IF a.vibrate THEN {"vibration"} ELSE {})

\* the poll thread between iterations
PollIdle == [size |-> 0, last |-> 0, obj |-> None, fire |-> "none", doc |-> None]

\* where the poll thread holds `alarm`, the object its for loop fetched last
InHand == {"enabled", "snoozed", "compare", "clear", "regular", "trigger"}

\* the poll thread's locals once the dictionary drops or replaces the entry
\* of alarm_id: the thread keeps the object it holds
Orphan(alarm_id) ==
  IF pc \in InHand /\ poll.last = alarm_id /\ poll.obj = None /\ alarm_id \in Known
    THEN [poll EXCEPT !.obj = Some(alarms[alarm_id])]
    ELSE poll

Init ==
  /\ alarms = <<>>
  /\ nextId = 1
  /\ now = 0
  /\ pc = "check"
  /\ current_time = 0
  /\ triggered = <<>>
  /\ call = [op |-> "init", id |-> 0, time |-> None, ret |-> "None", pre |-> None]
  /\ calls = 0
  /\ phase = <<>>
  /\ fires = <<>>
  /\ data_file = NoFile
  /\ disk = "ok"
  /\ audio = Silent
  /\ on_alarm_stopped = FALSE
  /\ stopped_args = <<>>
  /\ upd = None
  /\ backup_file = NoFile
  /\ stop_checking = FALSE
  /\ model_alarms = None
  /\ raised = FALSE
  /\ data = None
  /\ decoded = None
  /\ poll = PollIdle
  /\ broken = FALSE
  /\ notified = <<>>

\* ------------------------------------------------------------ add_alarm
AddAlarm(time_str, label, repeat_days, vibrate, snooze_duration, sound_file) ==
  /\ calls < MaxCalls
  /\ calls' = calls + 1
  /\ upd = None
  /\ nextId <= MaxAlarms
  /\ IF strptime_ok(time_str)
       THEN /\ alarms' = Put(alarms, nextId,
                             Alarm(time_str, label, repeat_days,
                                   IF sound_file # None THEN sound_file[1] ELSE DefaultSound,
                                   snooze_duration, vibrate))
            /\ nextId' = nextId + 1
            /\ phase' = Put(phase, nextId, "quiet")
            /\ fires' = Put(fires, nextId, 0)
            /\ data_file' = Saved(alarms')
            /\ backup_file' = BackedUp
            /\ call' = [op |-> "add_alarm", id |-> nextId, time |-> Some(time_str), ret |-> "id", pre |-> None]
       ELSE /\ UNCHANGED <<alarms, nextId, phase, fires, data_file, backup_file>>
            /\ call' = [op |-> "add_alarm", id |-> 0, time |-> Some(time_str), ret |-> "None", pre |-> None]
  /\ stopped_args' = <<>>
  /\ UNCHANGED <<now, pc, current_time, triggered, disk, audio, on_alarm_stopped, upd>>
  /\ UNCHANGED <<stop_checking, model_alarms, raised, data, decoded>>
  /\ UNCHANGED <<poll, broken, notified>>

\* ----------------------------------------------------- add_alarm_object
\* alarm is an Alarm the caller built. id is the id the caller constructed it
\* with, or None when the caller left it empty and __post_init__ drew a
\* fresh one. An id given by the caller is one the caller knows: that of an
\* alarm in the set.
AddAlarmObject(alarm, id) ==
  /\ calls < MaxCalls
  /\ calls' = calls + 1
  /\ upd = None
  /\ IF id = None THEN nextId <= MaxAlarms ELSE id[1] \in Known
  /\ LET key == IF id = None THEN nextId ELSE id[1]
     IN /\ alarms' = Put(alarms, key, alarm)
        /\ phase' = Put(phase, key, "quiet")
        /\ fires' = Put(fires, key, IF key \in Known THEN fires[key] ELSE 0)
        /\ call' = [op |-> "add_alarm_object", id |-> key, time |-> Some(alarm.time), ret |-> "id", pre |-> Before(key)]
  /\ nextId' = IF id = None THEN nextId + 1 ELSE nextId
  /\ data_file' = Saved(alarms')
  /\ backup_file' = BackedUp
  /\ stopped_args' = <<>>
  /\ UNCHANGED <<now, pc, current_time, triggered, disk, audio, on_alarm_stopped, upd>>
  /\ UNCHANGED <<stop_checking, model_alarms, raised, data, decoded>>
  /\ poll' = IF id = None THEN poll ELSE Orphan(id[1])
  /\ UNCHANGED <<broken, notified>>

\* ----------------------------------------------------- set_ui_callbacks
SetUiCallbacks(stopped) ==
  /\ calls < MaxCalls
  /\ calls' = calls + 1
  /\ upd = None
  /\ on_alarm_stopped' = stopped
  /\ call' = [op |-> "set_ui_callbacks", id |-> 0, time |-> None, ret |-> "None", pre |-> None]
  /\ stopped_args' = <<>>
  /\ UNCHANGED <<alarms, nextId, now, pc, current_time, triggered, phase, fires,
                 data_file, backup_file, disk, audio, upd>>
  /\ UNCHANGED <<stop_checking, model_alarms, raised, data, decoded>>
  /\ UNCHANGED <<poll, broken, notified>>

\* ------------------------------------------------------------ get_alarm
GetAlarm(alarm_id) ==
  /\ calls < MaxCalls
  /\ calls' = calls + 1
  /\ upd = None
  /\ call' = [op |-> "get_alarm", id |-> alarm_id, time |-> None,
              ret |-> IF alarm_id \in Known THEN "Alarm" ELSE "None", pre |-> Before(alarm_id)]
  /\ stopped_args' = <<>>
  /\ UNCHANGED <<alarms, nextId, now, pc, current_time, triggered, phase, fires,
                 data_file, backup_file, disk, audio, on_alarm_stopped, upd>>
  /\ UNCHANGED <<stop_checking, model_alarms, raised, data, decoded>>
  /\ UNCHANGED <<poll, broken, notified>>

\* --------------------------------------------------------- update_alarm
\* the phase an alarm returns to when a pending snooze is withdrawn
Settle(p) == IF p = "snoozed" THEN "fired" ELSE p

\* the "Update fields if provided" assignments
Assigned(a, time, label, repeat_days, vibrate, snooze_duration, sound_file) ==
  LET a1 == IF time # None THEN [a EXCEPT !.time = time[1]] ELSE a
      a2 == IF label # None THEN [a1 EXCEPT !.label = label[1]] ELSE a1
      a3 == IF repeat_days # None THEN [a2 EXCEPT !.repeat_days = repeat_days[1]] ELSE a2
      a4 == IF vibrate # None THEN [a3 EXCEPT !.vibrate = vibrate[1]] ELSE a3
      a5 == IF snooze_duration # None
              THEN [a4 EXCEPT !.snooze_duration = snooze_duration[1]] ELSE a4
  IN IF sound_file # None THEN [a5 EXCEPT !.sound_file = sound_file[1]] ELSE a5

\* the snooze reset done on every update, whether or not the time is given
ResetSnooze_Always(a, time) == [a EXCEPT !.snooze_count = 0, !.next_trigger = None]

\* the "Reset snooze if time changed" block
ResetSnooze(a, time) ==
  IF time # None THEN [a EXCEPT !.snooze_count = 0, !.next_trigger = None] ELSE a

\* update_alarm without the "Reset snooze if time changed" block
UpdateAlarm_KeepSnooze(alarm_id, time, label, repeat_days, vibrate, snooze_duration, sound_file) ==
  /\ calls < MaxCalls
  /\ calls' = calls + 1
  /\ upd = None
  /\ IF alarm_id \notin Known \/ (time # None /\ ~strptime_ok(time[1]))
       THEN /\ UNCHANGED <<alarms, phase, data_file, backup_file>>
            /\ call' = [op |-> "update_alarm", id |-> alarm_id, time |-> time, ret |-> "False", pre |-> Before(alarm_id)]
       ELSE /\ alarms' = [alarms EXCEPT ![alarm_id] =
                            Assigned(@, time, label, repeat_days, vibrate, snooze_duration, sound_file)]
            /\ phase' = phase
            /\ data_file' = Saved(alarms')
            /\ backup_file' = BackedUp
            /\ call' = [op |-> "update_alarm", id |-> alarm_id, time |-> time, ret |-> "True", pre |-> Before(alarm_id)]
  /\ stopped_args' = <<>>
  /\ UNCHANGED <<nextId, now, pc, current_time, triggered, fires, disk, audio, on_alarm_stopped, upd>>
  /\ UNCHANGED <<stop_checking, model_alarms, raised, data, decoded>>
  /\ UNCHANGED <<poll, broken, notified>>

\* update_alarm validating the time after the other fields are assigned
Updated_ValidateLast(a, time, label, repeat_days, vibrate, snooze_duration, sound_file) ==
  IF time # None /\ ~strptime_ok(time[1])
    THEN [alarm |-> Assigned(a, None, label, repeat_days, vibrate, snooze_duration, sound_file),
          ret |-> "False"]
    ELSE [alarm |-> ResetSnooze(Assigned(a, time, label, repeat_days, vibrate,
                                         snooze_duration, sound_file), time),
          ret |-> "True"]

\* the body of update_alarm for the alarm it found: strptime raises before
\* anything is assigned, and the except clause returns False
Updated(a, time, label, repeat_days, vibrate, snooze_duration, sound_file) ==
  IF time # None /\ ~strptime_ok(time[1])
    THEN [alarm |-> a, ret |-> "False"]
    ELSE [alarm |-> ResetSnooze(Assigned(a, time, label, repeat_days, vibrate,
                                         snooze_duration, sound_file), time),
          ret |-> "True"]

UpdateAlarm(alarm_id, time, label, repeat_days, vibrate, snooze_duration, sound_file) ==
  /\ calls < MaxCalls
  /\ calls' = calls + 1
  /\ upd = None
  /\ IF alarm_id \notin Known
       THEN /\ UNCHANGED <<alarms, phase, data_file, backup_file>>
            /\ call' = [op |-> "update_alarm", id |-> alarm_id, time |-> time, ret |-> "False", pre |-> Before(alarm_id)]
       ELSE LET u == Updated(alarms[alarm_id], time, label, repeat_days, vibrate,
                             snooze_duration, sound_file)
            IN /\ alarms' = [alarms EXCEPT ![alarm_id] = u.alarm]
               /\ phase' = IF time # None /\ u.ret = "True"
                             THEN [phase EXCEPT ![alarm_id] = Settle(@)] ELSE phase
               /\ data_file' = IF u.ret = "True" THEN Saved(alarms') ELSE data_file
               /\ backup_file' = IF u.ret = "True" THEN BackedUp ELSE backup_file
               /\ call' = [op |-> "update_alarm", id |-> alarm_id, time |-> time, ret |-> u.ret, pre |-> Before(alarm_id)]
  /\ stopped_args' = <<>>
  /\ UNCHANGED <<nextId, now, pc, current_time, triggered, fires, disk, audio, on_alarm_stopped, upd>>
  /\ UNCHANGED <<stop_checking, model_alarms, raised, data, decoded>>
  /\ UNCHANGED <<poll, broken, notified>>

\* update_alarm up to the end of its field assignments, when the poll thread
\* is scheduled before the call goes on (no lock is held)
UpdateAssign(alarm_id, time, label, repeat_days, vibrate, snooze_duration, sound_file) ==
  /\ calls < MaxCalls
  /\ calls' = calls + 1
  /\ upd = None
  /\ IF alarm_id \notin Known \/ (time # None /\ ~strptime_ok(time[1]))
       THEN /\ UNCHANGED <<alarms, upd>>
            /\ call' = [op |-> "update_alarm", id |-> alarm_id, time |-> time, ret |-> "False", pre |-> Before(alarm_id)]
       ELSE /\ alarms' = [alarms EXCEPT ![alarm_id] =
                            Assigned(@, time, label, repeat_days, vibrate, snooze_duration, sound_file)]
            /\ upd' = Some([id |-> alarm_id, time |-> time, pre |-> Before(alarm_id)])
            /\ call' = call
  /\ stopped_args' = <<>>
  /\ UNCHANGED <<nextId, now, pc, current_time, triggered, phase, fires,
                 data_file, backup_file, disk, audio, on_alarm_stopped>>
  /\ UNCHANGED <<stop_checking, model_alarms, raised, data, decoded>>
  /\ UNCHANGED <<poll, broken, notified>>

\* the rest of that update_alarm call: snooze reset, save, return True
UpdateFinish ==
  /\ upd # None
  /\ LET u == upd[1]
     IN /\ alarms' = [alarms EXCEPT ![u.id] = ResetSnooze(@, u.time)]
        /\ phase' = IF u.time # None THEN [phase EXCEPT ![u.id] = Settle(@)] ELSE phase
        /\ call' = [op |-> "update_alarm", id |-> u.id, time |-> u.time, ret |-> "True", pre |-> u.pre]
  /\ data_file' = Saved(alarms')
  /\ backup_file' = BackedUp
  /\ upd' = None
  /\ UNCHANGED <<nextId, now, pc, current_time, triggered, calls, fires,
                 disk, audio, on_alarm_stopped, stopped_args>>
  /\ UNCHANGED <<stop_checking, model_alarms, raised, data, decoded>>
  /\ UNCHANGED <<poll, broken, notified>>

\* --------------------------------------------------------- delete_alarm
\* delete_alarm letting a failed write undo the deletion and fail the call
DeleteAlarm_FailOnWrite(alarm_id) ==
  /\ calls < MaxCalls
  /\ calls' = calls + 1
  /\ upd = None
  /\ IF alarm_id \in Known /\ disk = "ok"
       THEN /\ alarms' = Drop(alarms, alarm_id)
            /\ phase' = Drop(phase, alarm_id)
            /\ fires' = Drop(fires, alarm_id)
            /\ data_file' = Saved(alarms')
            /\ backup_file' = BackedUp
            /\ call' = [op |-> "delete_alarm", id |-> alarm_id, time |-> None, ret |-> "True", pre |-> Before(alarm_id)]
       ELSE /\ UNCHANGED <<alarms, phase, fires>>
            /\ data_file' = IF alarm_id \in Known THEN Saved(alarms) ELSE data_file
            /\ backup_file' = IF alarm_id \in Known THEN BackedUp ELSE backup_file
            /\ call' = [op |-> "delete_alarm", id |-> alarm_id, time |-> None, ret |-> "False", pre |-> Before(alarm_id)]
  /\ stopped_args' = <<>>
  /\ UNCHANGED <<nextId, now, pc, current_time, triggered, disk, audio, on_alarm_stopped, upd>>
  /\ UNCHANGED <<stop_checking, model_alarms, raised, data, decoded>>
  /\ UNCHANGED <<poll, broken, notified>>

DeleteAlarm(alarm_id) ==
  /\ calls < MaxCalls
  /\ calls' = calls + 1
  /\ upd = None
  /\ IF alarm_id \in Known
       THEN /\ alarms' = Drop(alarms, alarm_id)
            /\ phase' = Drop(phase, alarm_id)
            /\ fires' = Drop(fires, alarm_id)
            /\ data_file' = Saved(alarms')
            /\ backup_file' = BackedUp
            /\ call' = [op |-> "delete_alarm", id |-> alarm_id, time |-> None, ret |-> "True", pre |-> Before(alarm_id)]
       ELSE /\ UNCHANGED <<alarms, phase, fires, data_file, backup_file>>
            /\ call' = [op |-> "delete_alarm", id |-> alarm_id, time |-> None, ret |-> "False", pre |-> Before(alarm_id)]
  /\ stopped_args' = <<>>
  /\ UNCHANGED <<nextId, now, pc, current_time, triggered, disk, audio, on_alarm_stopped, upd>>
  /\ UNCHANGED <<stop_checking, model_alarms, raised, data, decoded>>
  /\ poll' = Orphan(alarm_id)
  /\ UNCHANGED <<broken, notified>>

\* --------------------------------------------------------- toggle_alarm
\* toggle_alarm without the "Reset snooze when disabling" block
ToggleAlarm_NoReset(alarm_id) ==
  /\ calls < MaxCalls
  /\ calls' = calls + 1
  /\ upd = None
  /\ IF alarm_id \in Known
       THEN /\ alarms' = [alarms EXCEPT ![alarm_id] = [@ EXCEPT !.enabled = ~@]]
            /\ phase' = phase
            /\ data_file' = Saved(alarms')
            /\ backup_file' = BackedUp
            /\ call' = [op |-> "toggle_alarm", id |-> alarm_id, time |-> None, ret |-> "True", pre |-> Before(alarm_id)]
       ELSE /\ UNCHANGED <<alarms, phase, data_file, backup_file>>
            /\ call' = [op |-> "toggle_alarm", id |-> alarm_id, time |-> None, ret |-> "False", pre |-> Before(alarm_id)]
  /\ stopped_args' = <<>>
  /\ UNCHANGED <<nextId, now, pc, current_time, triggered, fires, disk, audio, on_alarm_stopped, upd>>
  /\ UNCHANGED <<stop_checking, model_alarms, raised, data, decoded>>
  /\ UNCHANGED <<poll, broken, notified>>

ToggleAlarm(alarm_id) ==
  /\ calls < MaxCalls
  /\ calls' = calls + 1
  /\ upd = None
  /\ IF alarm_id \in Known
       THEN LET a  == alarms[alarm_id]
                a1 == [a EXCEPT !.enabled = ~a.enabled]
                a2 == IF ~a1.enabled
                        THEN [a1 EXCEPT !.snooze_count = 0, !.next_trigger = None] ELSE a1
            IN /\ alarms' = [alarms EXCEPT ![alarm_id] = a2]
               /\ phase' = [phase EXCEPT ![alarm_id] = Settle(@)]
               /\ data_file' = Saved(alarms')
               /\ backup_file' = BackedUp
               /\ call' = [op |-> "toggle_alarm", id |-> alarm_id, time |-> None, ret |-> "True", pre |-> Before(alarm_id)]
       ELSE /\ UNCHANGED <<alarms, phase, data_file, backup_file>>
            /\ call' = [op |-> "toggle_alarm", id |-> alarm_id, time |-> None, ret |-> "False", pre |-> Before(alarm_id)]
  /\ stopped_args' = <<>>
  /\ UNCHANGED <<nextId, now, pc, current_time, triggered, fires, disk, audio, on_alarm_stopped, upd>>
  /\ UNCHANGED <<stop_checking, model_alarms, raised, data, decoded>>
  /\ UNCHANGED <<poll, broken, notified>>

\* ----------------------------------------------------------- stop_alarm
\* stop_alarm resetting snooze_count only
StopAlarm_KeepTrigger(alarm_id) ==
  /\ calls < MaxCalls
  /\ calls' = calls + 1
  /\ upd = None
  /\ audio' = StopAudio
  /\ IF alarm_id \in Known
       THEN /\ alarms' = [alarms EXCEPT ![alarm_id] = [@ EXCEPT !.snooze_count = 0]]
            /\ phase' = [phase EXCEPT ![alarm_id] = Settle(@)]
            /\ data_file' = Saved(alarms')
            /\ backup_file' = BackedUp
       ELSE UNCHANGED <<alarms, phase, data_file, backup_file>>
  /\ stopped_args' = IF on_alarm_stopped
                       THEN <<IF alarm_id \in Known THEN Some(alarms'[alarm_id]) ELSE None>>
                       ELSE <<>>
  /\ call' = [op |-> "stop_alarm", id |-> alarm_id, time |-> None, ret |-> "None", pre |-> Before(alarm_id)]
  /\ UNCHANGED <<nextId, now, pc, current_time, triggered, fires, disk, on_alarm_stopped, upd>>
  /\ UNCHANGED <<stop_checking, model_alarms, raised, data, decoded>>
  /\ UNCHANGED <<poll, broken, notified>>

StopAlarm(alarm_id) ==
  /\ calls < MaxCalls
  /\ calls' = calls + 1
  /\ upd = None
  /\ IF broken
       THEN /\ UNCHANGED <<alarms, phase, data_file, backup_file, audio>>
            /\ stopped_args' = <<>>
       ELSE /\ audio' = StopAudio
            /\ IF alarm_id \in Known
                 THEN /\ alarms' = [alarms EXCEPT ![alarm_id] =
                                      [@ EXCEPT !.snooze_count = 0, !.next_trigger = None]]
                      /\ phase' = [phase EXCEPT ![alarm_id] = Settle(@)]
                      /\ data_file' = Saved(alarms')
                      /\ backup_file' = BackedUp
                 ELSE UNCHANGED <<alarms, phase, data_file, backup_file>>
            /\ stopped_args' = IF on_alarm_stopped
                                 THEN <<IF alarm_id \in Known
                                          THEN Some(alarms'[alarm_id]) ELSE None>>
                                 ELSE <<>>
  /\ call' = [op |-> "stop_alarm", id |-> alarm_id, time |-> None, ret |-> "None", pre |-> Before(alarm_id)]
  /\ UNCHANGED <<nextId, now, pc, current_time, triggered, fires, disk, on_alarm_stopped, upd>>
  /\ UNCHANGED <<stop_checking, model_alarms, raised, data, decoded>>
  /\ UNCHANGED <<poll, broken, notified>>

\* --------------------------------------------------------- snooze_alarm
\* snooze_alarm silencing the managers before it looks the id up, the way
\* stop_alarm does
SnoozeAlarm_StopFirst(alarm_id) ==
  /\ calls < MaxCalls
  /\ calls' = calls + 1
  /\ upd = None
  /\ alarm_id \in Known => alarms[alarm_id].snooze_count < MaxSnoozeCount
  /\ audio' = StopAudio
  /\ IF alarm_id \in Known
       THEN LET a == alarms[alarm_id]
            IN /\ alarms' = [alarms EXCEPT ![alarm_id] =
                     [a EXCEPT !.next_trigger = Some(timedelta_minutes(now, a.snooze_duration)),
                               !.snooze_count = a.snooze_count + 1]]
               /\ phase' = [phase EXCEPT ![alarm_id] = IF @ = "quiet" THEN "quiet" ELSE "snoozed"]
               /\ data_file' = Saved(alarms')
               /\ backup_file' = BackedUp
       ELSE UNCHANGED <<alarms, phase, data_file, backup_file>>
  /\ stopped_args' = <<>>
  /\ call' = [op |-> "snooze_alarm", id |-> alarm_id, time |-> None, ret |-> "None", pre |-> Before(alarm_id)]
  /\ UNCHANGED <<nextId, now, pc, current_time, triggered, fires, disk, on_alarm_stopped, upd>>
  /\ UNCHANGED <<stop_checking, model_alarms, raised, data, decoded>>
  /\ UNCHANGED <<poll, broken, notified>>

SnoozeAlarm(alarm_id) ==
  /\ calls < MaxCalls
  /\ calls' = calls + 1
  /\ upd = None
  /\ alarm_id \in Known => alarms[alarm_id].snooze_count < MaxSnoozeCount
  /\ IF alarm_id \in Known /\ ~broken
       THEN LET a == alarms[alarm_id]
            IN /\ audio' = StopAudio
               /\ alarms' = [alarms EXCEPT ![alarm_id] =
                     [a EXCEPT !.next_trigger = Some(timedelta_minutes(now, a.snooze_duration)),
                               !.snooze_count = a.snooze_count + 1]]
               /\ phase' = [phase EXCEPT ![alarm_id] = IF @ = "quiet" THEN "quiet" ELSE "snoozed"]
               /\ data_file' = Saved(alarms')
               /\ backup_file' = BackedUp
       ELSE UNCHANGED <<alarms, phase, data_file, backup_file, audio>>
  /\ stopped_args' = <<>>
  /\ call' = [op |-> "snooze_alarm", id |-> alarm_id, time |-> None, ret |-> "None", pre |-> Before(alarm_id)]
  /\ UNCHANGED <<nextId, now, pc, current_time, triggered, fires, disk, on_alarm_stopped, upd>>
  /\ UNCHANGED <<stop_checking, model_alarms, raised, data, decoded>>
  /\ UNCHANGED <<poll, broken, notified>>

\* the next write to alarms.json meets condition d
DiskChange(d) ==
  /\ disk # d
  /\ disk' = d
  /\ UNCHANGED <<alarms, nextId, now, pc, current_time, triggered, call, calls, phase, fires,
                 data_file, backup_file, audio, on_alarm_stopped, stopped_args, upd>>
  /\ UNCHANGED <<stop_checking, model_alarms, raised, data, decoded>>
  /\ UNCHANGED <<poll, broken, notified>>

\* ---------------------------------------------------- _check_alarms_loop
\* the body of the for loop for one alarm: the alarm afterwards and the
\* branch that called _trigger_alarm ("none" when it was not called)
\* the loop body with the one-time branch leaving the alarm enabled
CheckOne_KeepArmed(a, t) ==
  IF ~a.enabled THEN [alarm |-> a, fire |-> "none"]
  ELSE IF a.next_trigger # None
    THEN IF t >= a.next_trigger[1]
           THEN [alarm |-> [a EXCEPT !.next_trigger = None], fire |-> "snooze"]
           ELSE [alarm |-> a, fire |-> "none"]
  ELSE IF a.time = strftime(t) /\ (a.repeat_days = {} \/ weekday(t) \in a.repeat_days)
    THEN [alarm |-> a, fire |-> "regular"]
  ELSE [alarm |-> a, fire |-> "none"]

\* the loop body without the repeat-day test
CheckOne_AnyDay(a, t) ==
  IF ~a.enabled THEN [alarm |-> a, fire |-> "none"]
  ELSE IF a.next_trigger # None
    THEN IF t >= a.next_trigger[1]
           THEN [alarm |-> [a EXCEPT !.next_trigger = None], fire |-> "snooze"]
           ELSE [alarm |-> a, fire |-> "none"]
  ELSE IF a.time = strftime(t)
    THEN IF a.repeat_days # {}
           THEN [alarm |-> a, fire |-> "regular"]
           ELSE [alarm |-> [a EXCEPT !.enabled = FALSE], fire |-> "regular"]
  ELSE [alarm |-> a, fire |-> "none"]

\* the loop body with "if" in place of "elif": a pending trigger that is not
\* yet due falls through to the regular time check
CheckOne_NoShortCircuit(a, t) ==
  IF ~a.enabled THEN [alarm |-> a, fire |-> "none"]
  ELSE IF a.next_trigger # None /\ t >= a.next_trigger[1]
    THEN [alarm |-> [a EXCEPT !.next_trigger = None], fire |-> "snooze"]
  ELSE IF a.time = strftime(t)
    THEN IF a.repeat_days # {}
           THEN IF weekday(t) \in a.repeat_days
                  THEN [alarm |-> a, fire |-> "regular"]
                  ELSE [alarm |-> a, fire |-> "none"]
           ELSE [alarm |-> [a EXCEPT !.enabled = FALSE], fire |-> "regular"]
  ELSE [alarm |-> a, fire |-> "none"]

\* the loop body testing isoweekday() (1..7) against repeat_days (0..6)
CheckOne_Isoweekday(a, t) ==
  IF ~a.enabled THEN [alarm |-> a, fire |-> "none"]
  ELSE IF a.next_trigger # None
    THEN IF t >= a.next_trigger[1]
           THEN [alarm |-> [a EXCEPT !.next_trigger = None], fire |-> "snooze"]
           ELSE [alarm |-> a, fire |-> "none"]
  ELSE IF a.time = strftime(t)
    THEN IF a.repeat_days # {}
           THEN IF (weekday(t) + 1) \in a.repeat_days
                  THEN [alarm |-> a, fire |-> "regular"]
                  ELSE [alarm |-> a, fire |-> "none"]
           ELSE [alarm |-> [a EXCEPT !.enabled = FALSE], fire |-> "regular"]
  ELSE [alarm |-> a, fire |-> "none"]

\* the loop body resetting snooze_count when a pending trigger fires
CheckOne_ResetCount(a, t) ==
  IF ~a.enabled THEN [alarm |-> a, fire |-> "none"]
  ELSE IF a.next_trigger # None
    THEN IF t >= a.next_trigger[1]
           THEN [alarm |-> [a EXCEPT !.next_trigger = None, !.snooze_count = 0],
                 fire |-> "snooze"]
           ELSE [alarm |-> a, fire |-> "none"]
  ELSE IF a.time = strftime(t)
    THEN IF a.repeat_days # {}
           THEN IF weekday(t) \in a.repeat_days
                  THEN [alarm |-> a, fire |-> "regular"]
                  ELSE [alarm |-> a, fire |-> "none"]
           ELSE [alarm |-> [a EXCEPT !.enabled = FALSE], fire |-> "regular"]
  ELSE [alarm |-> a, fire |-> "none"]

CheckOne(a, t) ==
  IF ~a.enabled THEN [alarm |-> a, fire |-> "none"]
  ELSE IF a.next_trigger # None
    THEN IF t >= a.next_trigger[1]
           THEN [alarm |-> [a EXCEPT !.next_trigger = None], fire |-> "snooze"]
           ELSE [alarm |-> a, fire |-> "none"]
  ELSE IF a.time = strftime(t)
    THEN IF a.repeat_days # {}
           THEN IF weekday(t) \in a.repeat_days
                  THEN [alarm |-> a, fire |-> "regular"]
                  ELSE [alarm |-> a, fire |-> "none"]
           ELSE [alarm |-> [a EXCEPT !.enabled = FALSE], fire |-> "regular"]
  ELSE [alarm |-> a, fire |-> "none"]

\* the loop body raises for this alarm: the comparison of the naive current
\* time with a next_trigger that carries a UTC offset is a TypeError
Raises(a, t) == a.enabled /\ a.next_trigger # None /\ Incomparable(a.next_trigger)

\* the alarms the for loop gets through before the try block is left: all of
\* them, or those in front of the first one whose evaluation raises
Reached(f, t) == {id \in DOMAIN f : \A j \in DOMAIN f : Raises(f[j], t) => id < j}

\* the iteration runs to its end, where _save_alarms() is called
Completes(f, t) == \A id \in DOMAIN f : ~Raises(f[id], t)

\* the _trigger_alarm calls of one iteration over alarms.values(), in
\* insertion order (ids are handed out in increasing order)
RECURSIVE TriggerLog(_, _, _)
TriggerLog(f, t, n) ==
  IF n = 0 THEN <<>>
  ELSE LET before == TriggerLog(f, t, n - 1)
       IN IF n \in Reached(f, t) /\ CheckOne(f[n], t).fire # "none"
            THEN Append(before, [id |-> n, path |-> CheckOne(f[n], t).fire])
            ELSE before

FiredIds(log) == {log[i].id : i \in DOMAIN log}
RegularIds(log) == {log[i].id : i \in {j \in DOMAIN log : log[j].path = "regular"}}
Calls(log, id) == Cardinality({i \in DOMAIN log : log[i].id = id})

\* what the _trigger_alarm calls of a log leave active
RingAll(active, f, log) ==
  active \cup UNION {Ring({}, f[id]) : id \in FiredIds(log)}

\* a poll iteration whose exception leaves the while loop
CheckAlarms_RaiseEndsLoop ==
  /\ (pc = "check" /\ ~stop_checking) \/ pc = "body"
  /\ current_time' = now
  /\ alarms' = [id \in Known |-> IF id \in Reached(alarms, now)
                                   THEN CheckOne(alarms[id], now).alarm ELSE alarms[id]]
  /\ triggered' = TriggerLog(alarms, now, MaxAlarms)
  /\ phase' = [id \in Known |-> IF id \in FiredIds(triggered') THEN "fired" ELSE phase[id]]
  /\ fires' = [id \in Known |-> IF id \in FiredIds(triggered') THEN fires[id] + 1 ELSE fires[id]]
  /\ audio' = IF broken THEN audio ELSE RingAll(audio, alarms, triggered')
  /\ notified' = IF broken THEN <<>> ELSE [i \in DOMAIN triggered' |-> triggered'[i].id]
  /\ data_file' = IF Completes(alarms, now) THEN Saved(alarms') ELSE data_file
  /\ backup_file' = IF Completes(alarms, now) THEN BackedUp ELSE backup_file
  /\ pc' = IF Completes(alarms, now) THEN "wait" ELSE "done"
  /\ call' = [op |-> "poll", id |-> 0, time |-> None, ret |-> "None", pre |-> None]
  /\ UNCHANGED <<nextId, now, calls, disk, on_alarm_stopped, stopped_args, upd>>
  /\ UNCHANGED <<stop_checking, model_alarms, raised, data, decoded>>
  /\ UNCHANGED <<poll, broken>>

CheckAlarms ==
  /\ (pc = "check" /\ ~stop_checking) \/ pc = "body"
  /\ current_time' = now
  /\ alarms' = [id \in Known |-> IF id \in Reached(alarms, now)
                                   THEN CheckOne(alarms[id], now).alarm ELSE alarms[id]]
  /\ triggered' = TriggerLog(alarms, now, MaxAlarms)
  /\ phase' = [id \in Known |-> IF id \in FiredIds(triggered') THEN "fired" ELSE phase[id]]
  /\ fires' = [id \in Known |-> IF id \in FiredIds(triggered') THEN fires[id] + 1 ELSE fires[id]]
  /\ audio' = IF broken THEN audio ELSE RingAll(audio, alarms, triggered')
  /\ notified' = IF broken THEN <<>> ELSE [i \in DOMAIN triggered' |-> triggered'[i].id]
  /\ data_file' = IF Completes(alarms, now) THEN Saved(alarms') ELSE data_file
  /\ backup_file' = IF Completes(alarms, now) THEN BackedUp ELSE backup_file
  /\ pc' = "wait"
  /\ call' = [op |-> "poll", id |-> 0, time |-> None, ret |-> "None", pre |-> None]
  /\ UNCHANGED <<nextId, now, calls, disk, on_alarm_stopped, stopped_args, upd>>
  /\ UNCHANGED <<stop_checking, model_alarms, raised, data, decoded>>
  /\ UNCHANGED <<poll, broken>>

\* threading.Event().wait(30): one polling interval of wall-clock time passes
Tick ==
  /\ pc = "wait"
  /\ now < MaxNow
  /\ now' = now + 1
  /\ pc' = "check"
  /\ fires' = IF MinuteOf(now + 1) # MinuteOf(now) THEN [id \in Known |-> 0] ELSE fires
  /\ UNCHANGED <<alarms, nextId, current_time, triggered, call, calls, phase>>
  /\ UNCHANGED <<data_file, backup_file, disk, audio, on_alarm_stopped, stopped_args, upd>>
  /\ UNCHANGED <<stop_checking, model_alarms, raised, data, decoded>>
  /\ UNCHANGED <<poll, broken, notified>>

\* the controller's programmatic interface on a healthy disk: label, vibrate
\* and sound_file stay at their defaults
Next ==
  \/ \E t \in TimeStrings, r \in RepeatChoices, d \in SnoozeDurations :
        AddAlarm(t, "", r, TRUE, d, None)
  \/ \E id \in AlarmIds, t \in Opt(TimeStrings), r \in Opt(RepeatChoices),
        d \in Opt(SnoozeDurations) : UpdateAlarm(id, t, None, r, None, d, None)
  \/ \E id \in AlarmIds : DeleteAlarm(id)
  \/ \E id \in AlarmIds : ToggleAlarm(id)
  \/ \E id \in AlarmIds : StopAlarm(id)
  \/ \E id \in AlarmIds : SnoozeAlarm(id)
  \/ CheckAlarms
  \/ Tick

Spec == Init /\ [][Next]_vars

\* ------------------------------------------------------- the application
\* Alarm objects a caller hands to add_alarm_object: the dataclass takes any
\* string as time and any datetime as next_trigger, one with a UTC offset
\* included
PlainObjects ==
  {Alarm(t, "", r, DefaultSound, MaxSnoozeDuration, TRUE) : t \in {strftime(0), BadTime}, r \in RepeatChoices}
    \cup {Alarm(strftime(0), "Work", {}, "custom.wav", MaxSnoozeDuration, FALSE)}
AlarmObjects ==
  PlainObjects \cup {[Alarm(strftime(0), "", {}, DefaultSound, MaxSnoozeDuration, TRUE)
                        EXCEPT !.next_trigger = Aware(0)]}

\* the edits a caller asks update_alarm for: the arguments it gives (None:
\* not given)
Edit(time, label, repeat_days, vibrate, snooze_duration, sound_file) ==
  [time |-> time, label |-> label, repeat_days |-> repeat_days, vibrate |-> vibrate,
   snooze_duration |-> snooze_duration, sound_file |-> sound_file]
Edits ==
  {Edit(None, None, None, None, None, None),
   Edit(Some(strftime(TicksPerMinute)), None, None, None, None, None),
   Edit(None, Some("Work"), None, None, None, None),
   Edit(None, None, Some({0, 2, 4}), None, Some(0), None),
   Edit(None, None, None, Some(FALSE), None, Some("custom.wav")),
   Edit(Some(strftime(TicksPerMinute)), Some("Work"), Some({0, 2, 4}), Some(FALSE), Some(0),
        Some("custom.wav")),
   Edit(Some(BadTime), None, None, None, None, None),
   Edit(Some(BadTime), Some("Work"), Some({0, 2, 4}), Some(FALSE), Some(0), Some("custom.wav"))}

\* the controller's whole public interface, as the screens and the alarm
\* popup use it
AppNext ==
  \/ \E a \in AlarmObjects, id \in Opt(AlarmIds) : AddAlarmObject(a, id)
  \/ \E id \in AlarmIds, e \in Edits :
        UpdateAlarm(id, e.time, e.label, e.repeat_days, e.vibrate, e.snooze_duration, e.sound_file)
  \/ \E id \in AlarmIds : DeleteAlarm(id)
  \/ \E id \in AlarmIds : ToggleAlarm(id)
  \/ \E id \in AlarmIds : StopAlarm(id)
  \/ \E id \in AlarmIds : SnoozeAlarm(id)
  \/ \E id \in AlarmIds : GetAlarm(id)
  \/ \E b \in BOOLEAN : SetUiCallbacks(b)
  \/ CheckAlarms
  \/ Tick

AppSpec == Init /\ [][AppNext]_vars

\* ================================================================ claims
\* a poll iteration of _check_alarms_loop: the only step from "check" to "wait"
PollStep == pc = "check" /\ pc' = "wait"

\* the state right after a poll iteration
AfterPoll == pc = "wait" /\ call.op = "poll"

\* the regular schedule of alarm a matches timestamp t
Due(a, t) == a.time = strftime(t) /\ (a.repeat_days = {} \/ weekday(t) \in a.repeat_days)

Idle(a) == a.enabled /\ a.next_trigger = None

\* C1: a poll iteration that finds an enabled one-shot alarm (repeat_days
\* empty) with no pending next_trigger and time equal to the current minute
\* calls _trigger_alarm for it exactly once and leaves it disabled.
C1_OneShotSelfDisarm ==
  [][PollStep =>
       \A id \in Known :
         (Idle(alarms[id]) /\ alarms[id].repeat_days = {} /\ alarms[id].time = strftime(now))
           => (Calls(triggered', id) = 1 /\ ~alarms'[id].enabled)]_vars

C1_Witness ==
  /\ AfterPoll
  /\ \E id \in Known :
       /\ alarms[id].repeat_days = {}
       /\ alarms[id].time = strftime(current_time)
       /\ Calls(triggered, id) = 1
       /\ ~alarms[id].enabled

\* C2: a poll iteration that finds an enabled repeating alarm with no pending
\* next_trigger and time equal to the current minute fires it if and only if
\* the current weekday is in repeat_days, and leaves it enabled either way.
C2_RepeatDayGating ==
  [][PollStep =>
       \A id \in Known :
         (Idle(alarms[id]) /\ alarms[id].repeat_days # {} /\ alarms[id].time = strftime(now))
           => /\ (id \in FiredIds(triggered')) <=> (weekday(now) \in alarms[id].repeat_days)
              /\ alarms'[id].enabled]_vars

C2_Witness ==
  /\ AfterPoll
  /\ \E id \in Known :
       /\ Idle(alarms[id])
       /\ alarms[id].repeat_days # {}
       /\ alarms[id].time = strftime(current_time)
       /\ weekday(current_time) \notin alarms[id].repeat_days
       /\ id \notin FiredIds(triggered)

\* C3: a poll iteration never fires an enabled alarm whose next_trigger lies
\* in the future, whatever its time and repeat_days, and leaves it as it was;
\* a poll iteration with now >= next_trigger fires it once and clears
\* next_trigger.
C3_SnoozeOverridesSchedule ==
  [][PollStep =>
       \A id \in Known :
         (alarms[id].enabled /\ alarms[id].next_trigger # None)
           => IF now < alarms[id].next_trigger[1]
                THEN id \notin FiredIds(triggered') /\ alarms'[id] = alarms[id]
                ELSE Calls(triggered', id) = 1 /\ alarms'[id].next_trigger = None]_vars

C3_Witness ==
  /\ AfterPoll
  /\ \E id \in Known :
       /\ alarms[id].enabled
       /\ alarms[id].next_trigger # None
       /\ current_time < alarms[id].next_trigger[1]
       /\ Due(alarms[id], current_time)
       /\ id \notin FiredIds(triggered)

\* C4: whenever a poll iteration fires an alarm with empty repeat_days, by the
\* regular check or by the pending next_trigger check, the alarm is disabled
\* at the end of that iteration.
C4_OneShotDisabledAfterAnyFire ==
  [][PollStep =>
       \A id \in Known :
         (id \in FiredIds(triggered') /\ alarms[id].repeat_days = {})
           => ~alarms'[id].enabled]_vars

\* C5: a repeating alarm fired by the regular check in one poll iteration is
\* not fired by the regular check again in the next iteration when that
\* iteration sees the same minute and no controller call came in between.
C5_OneFiringPerOccurrence ==
  [][(PollStep /\ call.op = "poll" /\ MinuteOf(current_time) = MinuteOf(now)) =>
       \A id \in Known :
         alarms[id].repeat_days # {}
           => ~(id \in RegularIds(triggered) /\ id \in RegularIds(triggered'))]_vars

\* C6 (as stated): once the last poll iteration of a minute has run, every
\* enabled alarm with no pending next_trigger whose schedule is due in that
\* minute has been fired by a poll iteration of that minute.
C6_DueFiredWithinMinute ==
  (pc = "wait" /\ now % TicksPerMinute = TicksPerMinute - 1)
    => \A id \in Known :
         (Idle(alarms[id]) /\ Due(alarms[id], now)) => fires[id] >= 1

\* C6 (amended): every alarm that is enabled, has no pending next_trigger and
\* is due when a poll iteration evaluates it is fired by that iteration.
C6_DueAtPollFired ==
  [][PollStep =>
       \A id \in Known :
         (Idle(alarms[id]) /\ Due(alarms[id], now)) => id \in RegularIds(triggered')]_vars

C6_Witness ==
  /\ AfterPoll
  /\ \E id \in Known :
       /\ alarms[id].repeat_days # {}
       /\ Due(alarms[id], current_time)
       /\ id \in RegularIds(triggered)
       /\ fires[id] >= 1

\* C7: an alarm that fired and was then snoozed, with no stop, toggle, time
\* edit or delete since, is fired by the first poll iteration with
\* now >= next_trigger, one-shot alarms included.
C7_SnoozedAlarmFiresAgain ==
  [][PollStep =>
       \A id \in Known :
         (phase[id] = "snoozed" /\ alarms[id].next_trigger # None
            /\ now >= alarms[id].next_trigger[1])
           => id \in FiredIds(triggered')]_vars

\* C8: update_alarm on a known id with a valid time returns True and leaves
\* snooze_count = 0 and next_trigger unset; update_alarm without a time leaves
\* snooze_count and next_trigger as they were.
C8_TimeEditResetsSnooze ==
  (call.op = "update_alarm" /\ call.pre # None) =>
    LET before == call.pre[1]
        after  == alarms[call.id]
    IN /\ (call.time # None /\ strptime_ok(call.time[1]))
            => (call.ret = "True" /\ after.snooze_count = 0 /\ after.next_trigger = None)
       /\ call.time = None
            => (after.snooze_count = before.snooze_count
                  /\ after.next_trigger = before.next_trigger)

C8_Witness ==
  /\ call.op = "update_alarm"
  /\ call.pre # None
  /\ call.time # None
  /\ call.ret = "True"
  /\ call.pre[1].snooze_count > 0
  /\ call.pre[1].next_trigger # None
  /\ alarms[call.id].snooze_count = 0
  /\ alarms[call.id].next_trigger = None

\* C9: toggle_alarm on a known id returns True and flips enabled; turning the
\* alarm off also sets snooze_count = 0 and clears next_trigger; turning it on
\* changes no other field.
C9_ToggleFlipsAndResets ==
  (call.op = "toggle_alarm" /\ call.pre # None) =>
    LET before == call.pre[1]
        after  == alarms[call.id]
    IN /\ call.ret = "True"
       /\ after.enabled = ~before.enabled
       /\ before.enabled => (after.snooze_count = 0 /\ after.next_trigger = None)
       /\ ~before.enabled => after = [before EXCEPT !.enabled = TRUE]

C9_Witness ==
  /\ call.op = "toggle_alarm"
  /\ call.pre # None
  /\ call.pre[1].enabled
  /\ call.pre[1].snooze_count > 0
  /\ call.pre[1].next_trigger # None
  /\ ~alarms[call.id].enabled
  /\ alarms[call.id].snooze_count = 0

\* C10: a disabled alarm has next_trigger unset and snooze_count = 0.
C10_DisabledIsIdle ==
  \A id \in Known :
    ~alarms[id].enabled => (alarms[id].next_trigger = None /\ alarms[id].snooze_count = 0)

\* ------------------------------------------------- a disk that can fail
DiskStates == {"ok", "denied", "torn"}

\* the controller called with valid input while writes to alarms.json may
\* fail
FaultNext ==
  \/ \E t \in Padded, r \in RepeatChoices : AddAlarm(t, "", r, TRUE, MaxSnoozeDuration, None)
  \/ \E id \in AlarmIds, t \in {None, Some(strftime(TicksPerMinute))} :
        UpdateAlarm(id, t, None, None, None, None, None)
  \/ \E id \in AlarmIds : DeleteAlarm(id)
  \/ \E id \in AlarmIds : ToggleAlarm(id)
  \/ \E id \in AlarmIds : StopAlarm(id)
  \/ \E id \in AlarmIds : SnoozeAlarm(id)
  \/ \E d \in DiskStates : DiskChange(d)
  \/ CheckAlarms
  \/ Tick

FaultSpec == Init /\ [][FaultNext]_vars

\* ------------------------------------------- update_alarm against the poll
\* the UI thread inside update_alarm while the poll thread runs: the two
\* halves of the call are separate steps, and a poll iteration or the wait
\* may come between them
RaceNext ==
  \/ \E t \in Padded, r \in RepeatChoices : AddAlarm(t, "", r, TRUE, MaxSnoozeDuration, None)
  \/ \E id \in AlarmIds, t \in Opt(TimeStrings) :
        UpdateAssign(id, t, None, None, None, None, None)
  \/ UpdateFinish
  \/ \E id \in AlarmIds : SnoozeAlarm(id)
  \/ CheckAlarms
  \/ Tick

RaceSpec == Init /\ [][RaceNext]_vars

\* C11: in every reachable state every alarm of the controller has a time
\* that parses as a 24-hour HH:MM value, whichever path created or edited it
\* (add_alarm, add_alarm_object, update_alarm).
C11_EveryTimeValid == \A id \in Known : strptime_ok(alarms[id].time)

\* C12: in every reachable state every alarm has snooze_duration >= 1, so a
\* snooze always sets next_trigger strictly after the moment it is set.
C12_SnoozeDurationPositive == \A id \in Known : alarms[id].snooze_duration >= 1

\* a step that is the controller call op, from its entry to its return
CallStep(op) == calls' = calls + 1 /\ call'.op = op

\* C13: update_alarm on a known id with a time that does not parse returns
\* False and leaves the whole alarm set (every field of the alarm) and
\* alarms.json as they were, whatever other fields the call passes.
C13_BadTimeEditChangesNothing ==
  [][CallStep("update_alarm") =>
       \A id \in Known, e \in Edits :
         (/\ e.time # None /\ ~strptime_ok(e.time[1])
          /\ UpdateAlarm(id, e.time, e.label, e.repeat_days, e.vibrate,
                         e.snooze_duration, e.sound_file))
           => /\ alarms' = alarms
              /\ data_file' = data_file
              /\ call'.ret = "False"]_vars

\* an update with an unparseable time has been refused for a stored alarm
C13_Witness ==
  /\ call.op = "update_alarm" /\ call.time = Some(BadTime) /\ call.pre # None
  /\ call.ret = "False"
  /\ data_file.state = "valid"

\* C14: for an id that is not in the set, update_alarm, delete_alarm and
\* toggle_alarm return False, get_alarm returns None and snooze_alarm does
\* nothing; none of them changes the alarm set, an alarm's fields, what the
\* audio and notification managers have active, or alarms.json.
C14_UnknownIdChangesNothing ==
  [][(/\ calls' = calls + 1
      /\ call'.op \in {"update_alarm", "delete_alarm", "toggle_alarm", "get_alarm", "snooze_alarm"}
      /\ call'.id \notin Known)
       => /\ alarms' = alarms
          /\ audio' = audio
          /\ data_file' = data_file
          /\ call'.ret = IF call'.op \in {"update_alarm", "delete_alarm", "toggle_alarm"}
                           THEN "False" ELSE "None"]_vars

\* snooze_alarm has been called with an unknown id while an alarm was ringing
C14_Witness ==
  /\ call.op = "snooze_alarm" /\ call.id \notin Known /\ call.pre = None
  /\ Known # {}
  /\ "sound" \in audio
  /\ data_file.state = "valid"

\* the value a field has after an update that was given the argument arg
\* (None: not given) when it had the value old before
Given(arg, old) == IF arg # None THEN arg[1] ELSE old

\* C15: update_alarm on a known id sets exactly the fields it was given, and
\* snooze_count and next_trigger are reset exactly when a time is given;
\* every other field keeps its value, no update changes the ids in the set
\* or an alarm's enabled flag, and no other alarm is modified.
C15_UpdateFrame ==
  [][CallStep("update_alarm") =>
       \A id \in Known, e \in Edits :
         UpdateAlarm(id, e.time, e.label, e.repeat_days, e.vibrate,
                     e.snooze_duration, e.sound_file)
           => /\ DOMAIN alarms' = DOMAIN alarms
              /\ \A j \in Known \ {id} : alarms'[j] = alarms[j]
              /\ alarms'[id].enabled = alarms[id].enabled
              /\ call'.ret = "True" =>
                   LET old == alarms[id]
                       new == alarms'[id]
                   IN /\ new.time = Given(e.time, old.time)
                      /\ new.label = Given(e.label, old.label)
                      /\ new.repeat_days = Given(e.repeat_days, old.repeat_days)
                      /\ new.vibrate = Given(e.vibrate, old.vibrate)
                      /\ new.snooze_duration = Given(e.snooze_duration, old.snooze_duration)
                      /\ new.sound_file = Given(e.sound_file, old.sound_file)
                      /\ new.snooze_count = IF e.time # None THEN 0 ELSE old.snooze_count
                      /\ new.next_trigger = IF e.time # None THEN None ELSE old.next_trigger]_vars

\* an update that gave no time has changed the label of one of two alarms,
\* whose next_trigger was pending and still is
C15_Witness ==
  /\ call.op = "update_alarm" /\ call.ret = "True" /\ call.pre # None /\ call.time = None
  /\ Cardinality(Known) = 2
  /\ call.id \in Known
  /\ alarms[call.id].label # call.pre[1].label
  /\ alarms[call.id].next_trigger # None

\* C16: stop_alarm on a known id leaves the alarm with snooze_count = 0 and
\* no next_trigger and every other field as it was (an enabled alarm is then
\* enabled and idle, a disabled one still disabled); the other alarms are
\* not modified.
C16_StopFrame ==
  [][(CallStep("stop_alarm") /\ call'.id \in Known) =>
       LET id  == call'.id
           old == alarms[id]
           new == alarms'[id]
       IN /\ DOMAIN alarms' = DOMAIN alarms
          /\ new = [old EXCEPT !.snooze_count = 0, !.next_trigger = None]
          /\ new.snooze_count = 0 /\ new.next_trigger = None
          /\ old.enabled => Idle(new)
          /\ ~old.enabled => ~new.enabled
          /\ \A j \in Known \ {id} : alarms'[j] = alarms[j]]_vars

\* a snoozed alarm has been stopped
C16_Witness ==
  /\ call.op = "stop_alarm" /\ call.pre # None /\ call.id \in Known
  /\ call.pre[1].snooze_count > 0
  /\ call.pre[1].next_trigger # None
  /\ alarms[call.id].snooze_count = 0
  /\ alarms[call.id].next_trigger = None

\* C17: every time stop_alarm invokes the registered on_alarm_stopped
\* callback, the argument is an Alarm of the controller's set, the one stored
\* under the id stop_alarm was given, and never None.
C17_StoppedCallbackGetsAlarm ==
  [][CallStep("stop_alarm") =>
       \A i \in DOMAIN stopped_args' :
         /\ stopped_args'[i] # None
         /\ call'.id \in DOMAIN alarms'
         /\ stopped_args'[i] = Some(alarms'[call'.id])]_vars

\* C18: when the write of alarms.json fails, add_alarm, update_alarm,
\* delete_alarm, toggle_alarm, snooze_alarm and stop_alarm on valid input
\* still apply their change to the alarm set in memory and return what they
\* return when the write succeeds (the new id, True, or nothing).
C18_WriteFailureKeepsMutation ==
  [][(calls' = calls + 1 /\ disk # "ok") =>
       LET id == call'.id
       IN /\ data_file' \in {data_file, Corrupt}
          /\ (call'.op = "add_alarm" /\ strptime_ok(call'.time[1])) =>
               /\ call'.ret = "id"
               /\ DOMAIN alarms' = DOMAIN alarms \cup {id} /\ id \notin DOMAIN alarms
               /\ alarms'[id].time = call'.time[1]
               /\ \A j \in DOMAIN alarms : alarms'[j] = alarms[j]
          /\ (call'.op = "update_alarm" /\ id \in Known) =>
               /\ call'.ret = "True"
               /\ call'.time # None =>
                    alarms'[id] = [alarms[id] EXCEPT !.time = call'.time[1],
                                                     !.snooze_count = 0, !.next_trigger = None]
               /\ call'.time = None => alarms'[id] = alarms[id]
          /\ (call'.op = "delete_alarm" /\ id \in Known) =>
               /\ call'.ret = "True"
               /\ DOMAIN alarms' = DOMAIN alarms \ {id}
          /\ (call'.op = "toggle_alarm" /\ id \in Known) =>
               /\ call'.ret = "True"
               /\ alarms'[id].enabled = ~alarms[id].enabled
          /\ (call'.op = "snooze_alarm" /\ id \in Known) =>
               /\ alarms'[id].snooze_count = alarms[id].snooze_count + 1
               /\ alarms'[id].next_trigger = Some(timedelta_minutes(now, alarms[id].snooze_duration))
          /\ (call'.op = "stop_alarm" /\ id \in Known) =>
               /\ alarms'[id].snooze_count = 0
               /\ alarms'[id].next_trigger = None]_vars

\* an alarm has been deleted while the write was torn: the id is returned
\* as deleted, the set has lost it, and alarms.json holds no document
C18_Witness ==
  /\ call.op = "delete_alarm" /\ call.ret = "True" /\ call.pre # None
  /\ call.id \notin Known
  /\ disk = "torn"
  /\ data_file = Corrupt

\* C19: when the evaluation of one alarm raises an error in a poll
\* iteration, every other alarm that is enabled and due in that iteration is
\* still fired in it, and the save at the end of the iteration still runs.
C19_PollSurvivesAlarmError ==
  [][(PollStep /\ \E id \in Known : Raises(alarms[id], now)) =>
       /\ \A j \in Known :
            (~Raises(alarms[j], now) /\ CheckOne(alarms[j], now).fire # "none")
              => j \in FiredIds(triggered')
       /\ data_file' = Saved(alarms')]_vars

\* the alarm of the update in flight is in neither the state the call found
\* nor the state the call will leave: fields are assigned, the snooze reset
\* is still to come
Intermediate(u) ==
  /\ alarms[u.id] # u.pre[1]
  /\ alarms[u.id] # ResetSnooze(alarms[u.id], u.time)

\* C20: update_alarm on an alarm and the poll loop's evaluation of that alarm
\* exclude each other: no poll iteration fires the alarm in an intermediate
\* state of an update_alarm call, with the new time assigned and the old
\* snooze_count and next_trigger not yet reset.
C20_UpdateExcludesPoll ==
  [][(PollStep /\ upd # None /\ Intermediate(upd[1]))
       => upd[1].id \notin FiredIds(triggered')]_vars

\* C30: the alarms of the set have pairwise distinct ids, each stored under
\* its own id (the set is a map from id to alarm), and an add that succeeds
\* (add_alarm or add_alarm_object returning the id) grows the set by exactly
\* one alarm and leaves every alarm that was in the set in place and as it
\* was.
C30_AddGrowsSetByOne ==
  [][(/\ calls' = calls + 1
      /\ call'.op \in {"add_alarm", "add_alarm_object"}
      /\ call'.ret = "id")
       => /\ Cardinality(DOMAIN alarms') = Cardinality(DOMAIN alarms) + 1
          /\ \A j \in DOMAIN alarms : j \in DOMAIN alarms' /\ alarms'[j] = alarms[j]]_vars

\* ------------------------------------------------- to_dict and from_dict
\* the alarms the conversion is tried on: every field takes several values,
\* next_trigger is unset, naive or offset-aware
ValidAlarms ==
  [time : Padded \cup {Unpadded}, label : {"", "Work"}, enabled : BOOLEAN,
   repeat_days : RepeatChoices, sound_file : {DefaultSound, "custom.wav"},
   snooze_duration : SnoozeDurations, vibrate : BOOLEAN,
   snooze_count : 0..MaxSnoozeCount,
   next_trigger : {None, <<0>>, <<MaxNow>>, Aware(0)}]

\* a string that is no timestamp
Garbage == <<"s", "o", "o", "n">>

\* a dictionary without the keys in keys
Omit(d, keys) == [f \in (DOMAIN d) \ keys |-> d[f]]

\* a dictionary with the keys in keys added
Extra(d, keys) == [f \in (DOMAIN d) \cup keys |-> IF f \in DOMAIN d THEN d[f] ELSE "?"]

\* records as another program or an older version may have written them:
\* a record of an alarm with no field at its default, its next_trigger a
\* timestamp, a string that is none, or null; any fields missing; the old
\* 'emoji' key or a key this version does not know added
ForeignDicts ==
  LET a == [time |-> strftime(0), label |-> "Work", enabled |-> FALSE,
            repeat_days |-> {0, 2, 4}, sound_file |-> "custom.wav",
            snooze_duration |-> 0, vibrate |-> FALSE, snooze_count |-> 1,
            next_trigger |-> <<MaxNow>>]
      bases == {to_dict(1, a),
                [to_dict(1, a) EXCEPT !.next_trigger = Garbage],
                [to_dict(1, a) EXCEPT !.next_trigger = None]}
  IN {Extra(Omit(b, m), x) : b \in bases, m \in SUBSET Fields, x \in SUBSET {"emoji", "colour"}}

\* one alarm held under its id, or one dictionary received
CodecInit ==
  /\ nextId = MaxAlarms + 1
  /\ now = 0
  /\ pc = "check"
  /\ current_time = 0
  /\ triggered = <<>>
  /\ call = [op |-> "init", id |-> 0, time |-> None, ret |-> "None", pre |-> None]
  /\ calls = 0
  /\ data_file = NoFile
  /\ backup_file = NoFile
  /\ disk = "ok"
  /\ audio = Silent
  /\ on_alarm_stopped = FALSE
  /\ stopped_args = <<>>
  /\ upd = None
  /\ stop_checking = FALSE
  /\ model_alarms = None
  /\ raised = FALSE
  /\ decoded = None
  /\ \/ /\ \E id \in AlarmIds, a \in ValidAlarms : alarms = Put(<<>>, id, a)
        /\ phase = [id \in DOMAIN alarms |-> "quiet"]
        /\ fires = [id \in DOMAIN alarms |-> 0]
        /\ data = None
     \/ /\ alarms = <<>>
        /\ phase = <<>>
        /\ fires = <<>>
        /\ data \in {Some(d) : d \in ForeignDicts}
  /\ poll = PollIdle
  /\ broken = FALSE
  /\ notified = <<>>

\* alarm.to_dict() for an alarm of the set
ToDict(id) ==
  /\ id \in Known
  /\ data = None
  /\ data' = Some(to_dict(id, alarms[id]))
  /\ UNCHANGED <<alarms, nextId, now, pc, current_time, triggered, call, calls, phase, fires,
                 data_file, disk, audio, on_alarm_stopped, stopped_args, upd,
                 backup_file, stop_checking, model_alarms, raised, decoded>>
  /\ UNCHANGED <<poll, broken, notified>>

\* Alarm.from_dict(data)
FromDict ==
  /\ data # None
  /\ decoded = None
  /\ ~raised
  /\ raised' = TypeError(data[1])
  /\ decoded' = IF TypeError(data[1]) THEN None ELSE Some(from_dict(data[1], nextId))
  /\ nextId' = IF "id" \in DOMAIN data[1] THEN nextId ELSE nextId + 1
  /\ UNCHANGED <<alarms, now, pc, current_time, triggered, call, calls, phase, fires,
                 data_file, disk, audio, on_alarm_stopped, stopped_args, upd,
                 backup_file, stop_checking, model_alarms, data>>
  /\ UNCHANGED <<poll, broken, notified>>

CodecNext ==
  \/ \E id \in AlarmIds : ToDict(id)
  \/ FromDict

CodecSpec == CodecInit /\ [][CodecNext]_vars

\* C23: for every valid alarm a, from_dict(a.to_dict()) does not raise and
\* gives back the same id and the same alarm field for field; an unset
\* next_trigger goes to null and back to unset, a set one survives the trip
\* through its timestamp string.
C23_RoundTrip ==
  [][(FromDict /\ \E id \in Known : data = Some(to_dict(id, alarms[id])))
       => /\ ~raised'
          /\ \E id \in Known : decoded' = Some([id |-> id, alarm |-> alarms[id]])]_vars

\* an alarm with a set next_trigger has been through to_dict and from_dict
C23_Witness ==
  /\ decoded # None
  /\ \E id \in Known : /\ alarms[id].next_trigger # None
                       /\ data = Some(to_dict(id, alarms[id]))
                       /\ data[1].next_trigger = isoformat(alarms[id].next_trigger)

\* C24: from_dict of a record with a valid time succeeds whatever unknown
\* extra keys the record carries, the unknown keys being dropped; a record
\* that lacks optional fields succeeds with each of them at its default; a
\* next_trigger that is absent or no timestamp gives an unset next_trigger.
C24_LenientFromDict ==
  [][(FromDict /\ "time" \in DOMAIN data[1] /\ strptime_ok(data[1].time))
       => /\ ~raised'
          /\ decoded' # None
          /\ \A f \in Fields \ {"id", "next_trigger"} :
               decoded'[1].alarm[f] =
                 IF f \in DOMAIN data[1] THEN data[1][f]
                 ELSE from_dict([time |-> data[1].time], 0).alarm[f]
          /\ ("next_trigger" \notin DOMAIN data[1] \/ data[1].next_trigger = Garbage)
               => decoded'[1].alarm.next_trigger = None]_vars

\* ------------------------------------------- _load_alarms and _load_backup
\* a file of zero bytes
Empty == [state |-> "empty", alarms |-> <<>>]

\* a file whose root is a list of records (what AlarmModel writes) and not
\* the dictionary with the key 'alarms' that the controller writes
ListDocument(recs) == [state |-> "list", alarms |-> recs]

\* what a loop over records leaves: the alarm set, the next fresh id, and
\* whether it ended in an exception
Loaded(mem, fresh, exc) == [alarms |-> mem, nextId |-> fresh, raised |-> exc]

\* for alarm_data in data.get('alarms', []): from_dict, then store under the
\* id; the first record from_dict refuses ends the loop with its exception
RECURSIVE ReadRecords(_, _, _)
ReadRecords(mem, recs, fresh) ==
  IF recs = <<>> THEN Loaded(mem, fresh, FALSE)
  ELSE IF TypeError(Head(recs)) THEN Loaded(mem, fresh, TRUE)
  ELSE LET r == from_dict(Head(recs), fresh)
       IN ReadRecords(Put(mem, r.id, r.alarm), Tail(recs),
                      IF "id" \in DOMAIN Head(recs) THEN fresh ELSE fresh + 1)

\* the body of the try block of _load_alarms and of _load_backup for a file
\* with the content f: nothing when the file is absent; json.load raises on
\* an empty or unparseable file, data.get raises on a list
ReadFile(mem, f, fresh) ==
  CASE f.state = "absent" -> Loaded(mem, fresh, FALSE)
    [] f.state \in {"empty", "corrupt", "list"} -> Loaded(mem, fresh, TRUE)
    [] f.state = "valid" -> ReadRecords(mem, f.alarms, fresh)

\* _load_backup() without its except clause
load_backup_NoExcept(mem, fresh) == ReadFile(mem, backup_file, fresh)

\* _load_backup(): reads alarms.json.bak into the set as it stands; every
\* exception ends in its except clause
load_backup(mem, fresh) ==
  [ReadFile(mem, backup_file, fresh) EXCEPT !.raised = FALSE]

\* _load_alarms(): reads alarms.json; on any exception turns to the backup,
\* keeping what the loop had stored before the exception
load_alarms ==
  LET r == ReadFile(<<>>, data_file, nextId)
  IN IF r.raised THEN load_backup(r.alarms, r.nextId) ELSE r

\* uuid4 gives an id that no alarm carries: the first number from fresh on
\* that is above every id in ids
Unused(fresh, ids) ==
  IF \E i \in ids : i >= fresh THEN 1 + (CHOOSE i \in ids : \A j \in ids : j <= i) ELSE fresh

\* AlarmController(): the load, then the start of the poll thread. Neither
\* file is written.
Construct ==
  /\ pc = "new"
  /\ ~raised
  /\ LET r == load_alarms
     IN /\ alarms' = r.alarms
        /\ nextId' = Unused(r.nextId, DOMAIN r.alarms)
        /\ raised' = r.raised
        /\ pc' = IF r.raised THEN "new" ELSE "check"
        /\ phase' = [id \in DOMAIN r.alarms |-> "quiet"]
        /\ fires' = [id \in DOMAIN r.alarms |-> 0]
  /\ call' = [op |-> "AlarmController", id |-> 0, time |-> None, ret |-> "None", pre |-> None]
  /\ UNCHANGED <<now, current_time, triggered, calls, data_file, backup_file, disk, audio,
                 on_alarm_stopped, stopped_args, upd, stop_checking, model_alarms,
                 data, decoded>>
  /\ UNCHANGED <<poll, broken, notified>>

\* the records the files are made of: two alarms as to_dict writes them, the
\* second one snoozed, and a record without a time, which from_dict refuses
Records ==
  LET a == Alarm(strftime(0), "Work", {}, DefaultSound, MaxSnoozeDuration, TRUE)
      b == [Alarm(strftime(TicksPerMinute), "", {0, 2, 4}, "custom.wav", MaxSnoozeDuration, FALSE)
              EXCEPT !.snooze_count = 1, !.next_trigger = <<MaxNow>>]
  IN {to_dict(1, a), to_dict(2, b), Omit(to_dict(1, a), {"time"})}

\* the lists of at most MaxRecords records in which no record is repeated
RecordLists ==
  UNION {{q \in [1..n -> Records] : \A i, j \in 1..n : q[i] = q[j] => i = j} : n \in 0..MaxRecords}

\* what alarms.json or alarms.json.bak may hold when the program starts
Files ==
  {NoFile, Empty, Corrupt}
    \cup {[state |-> "valid", alarms |-> q] : q \in RecordLists}
    \cup {ListDocument(q) : q \in RecordLists}

\* ------------------------------------------------------------ AlarmModel
\* json.dump([alarm.to_dict() for alarm in self.alarms])
ListDump(list) == ListDocument([i \in 1..Len(list) |-> to_dict(list[i].id, list[i].alarm)])

\* the loop of AlarmModel.load_alarms: each record goes through from_dict in
\* a try of its own, and one that is refused is skipped
RECURSIVE valid_alarms(_, _)
valid_alarms(recs, fresh) ==
  IF recs = <<>> THEN <<>>
  ELSE IF TypeError(Head(recs)) THEN valid_alarms(Tail(recs), fresh)
  ELSE <<from_dict(Head(recs), fresh)>>
         \o valid_alarms(Tail(recs), IF "id" \in DOMAIN Head(recs) THEN fresh ELSE fresh + 1)

\* AlarmModel._restore_from_backup(): the list and alarms.json it leaves.
\* The backup must be a list root of which from_dict accepts every record;
\* the restored list is then written to alarms.json. Any exception, that of
\* the write included, leaves the list empty.
restore_from_backup(primary, fresh) ==
  IF /\ backup_file.state = "list"
     /\ \A i \in 1..Len(backup_file.alarms) : ~TypeError(backup_file.alarms[i])
    THEN LET restored == valid_alarms(backup_file.alarms, fresh)
         IN CASE disk = "ok" -> [alarms |-> restored, data_file |-> ListDump(restored)]
              [] disk = "denied" -> [alarms |-> <<>>, data_file |-> primary]
              [] disk = "torn" -> [alarms |-> <<>>, data_file |-> Corrupt]
    ELSE [alarms |-> <<>>, data_file |-> primary]

\* AlarmModel.load_alarms(): the list and alarms.json it leaves
model_load_alarms(fresh) ==
  CASE data_file.state = "absent" -> [alarms |-> <<>>, data_file |-> data_file]
    [] data_file.state = "empty" /\ backup_file.state # "absent" ->
         restore_from_backup(data_file, fresh)
    [] data_file.state = "list" ->
         [alarms |-> valid_alarms(data_file.alarms, fresh), data_file |-> data_file]
    [] OTHER -> restore_from_backup(data_file, fresh)

\* AlarmModel.save_alarms() with the list list: the copy to alarms.json.bak
\* calls shutil, which the module does not import, so it raises NameError
\* into the inner except and the backup is never written; a write that fails
\* ends in _restore_from_backup()
model_save_alarms(list) ==
  CASE disk = "ok" -> [alarms |-> list, data_file |-> ListDump(list)]
    [] disk = "denied" -> restore_from_backup(data_file, nextId)
    [] disk = "torn" -> restore_from_backup(Corrupt, nextId)

\* the ids of a list of alarms
IdsOf(list) == {list[i].id : i \in 1..Len(list)}

\* AlarmModel(): the constructor loads
ModelConstruct ==
  /\ calls < MaxCalls
  /\ calls' = calls + 1
  /\ model_alarms = None
  /\ LET r == model_load_alarms(nextId)
     IN /\ model_alarms' = Some(r.alarms)
        /\ data_file' = r.data_file
        /\ nextId' = Unused(nextId, IdsOf(r.alarms))
  /\ raised' = FALSE
  /\ call' = [op |-> "AlarmModel", id |-> 0, time |-> None, ret |-> "None", pre |-> None]
  /\ UNCHANGED <<alarms, now, pc, current_time, triggered, phase, fires, backup_file, disk,
                 audio, on_alarm_stopped, stopped_args, upd, stop_checking, data, decoded>>
  /\ UNCHANGED <<poll, broken, notified>>

\* AlarmModel.add_alarm(alarm) for an alarm built without an id
ModelAddAlarm(alarm) ==
  /\ calls < MaxCalls
  /\ calls' = calls + 1
  /\ nextId <= MaxAlarms
  /\ model_alarms # None
  /\ LET r == model_save_alarms(Append(model_alarms[1], [id |-> nextId, alarm |-> alarm]))
     IN /\ model_alarms' = Some(r.alarms)
        /\ data_file' = r.data_file
  /\ nextId' = nextId + 1
  /\ call' = [op |-> "AlarmModel.add_alarm", id |-> nextId, time |-> Some(alarm.time),
              ret |-> "id", pre |-> None]
  /\ UNCHANGED <<alarms, now, pc, current_time, triggered, phase, fires, backup_file, disk,
                 audio, on_alarm_stopped, stopped_args, upd, stop_checking, raised, data,
                 decoded>>
  /\ UNCHANGED <<poll, broken, notified>>

\* --------------------------------------------------- starting from files
\* the program starts with whatever the two files hold
StoreInit ==
  /\ alarms = <<>>
  /\ nextId = 1
  /\ now = 0
  /\ pc = "new"
  /\ current_time = 0
  /\ triggered = <<>>
  /\ call = [op |-> "init", id |-> 0, time |-> None, ret |-> "None", pre |-> None]
  /\ calls = 0
  /\ phase = <<>>
  /\ fires = <<>>
  /\ data_file \in Files
  /\ backup_file \in Files
  /\ disk = "ok"
  /\ audio = Silent
  /\ on_alarm_stopped = FALSE
  /\ stopped_args = <<>>
  /\ upd = None
  /\ stop_checking = FALSE
  /\ model_alarms = None
  /\ raised = FALSE
  /\ data = None
  /\ decoded = None
  /\ poll = PollIdle
  /\ broken = FALSE
  /\ notified = <<>>

StoreNext ==
  \/ Construct
  \/ ModelConstruct
  \/ \E a \in PlainObjects : ModelAddAlarm(a)
  \/ CheckAlarms
  \/ Tick

StoreSpec == StoreInit /\ [][StoreNext]_vars

\* the alarm set a list of decoded records amounts to
AsSet(list) == [id \in IdsOf(list) |-> (CHOOSE r \in {list[i] : i \in 1..Len(list)} : r.id = id).alarm]

\* every record of the file content f is one from_dict accepts
AllValid(f) == \A i \in 1..Len(f.alarms) : ~TypeError(f.alarms[i])

\* C25: loading a parseable document in which valid and malformed records
\* are mixed gives exactly the valid records, wherever the malformed ones
\* stand: each malformed record is skipped by itself, no valid record is
\* lost and no record of the backup file is added. Stated for the
\* controller's load and for AlarmModel's.
C25_MalformedRecordsSkipped ==
  [][/\ (Construct /\ data_file.state = "valid")
          => /\ ~raised'
             /\ alarms' = AsSet(valid_alarms(data_file.alarms, nextId))
     /\ (ModelConstruct /\ data_file.state = "list")
          => model_alarms' = Some(valid_alarms(data_file.alarms, nextId))]_vars

\* C26: when alarms.json is corrupted (unparseable, zero bytes, or a root of
\* the wrong shape) and alarms.json.bak is valid, the load leaves the backup's
\* alarm set in memory and alarms.json rewritten so that it holds that set.
\* Stated for the controller's load and for AlarmModel's.
C26_BackupRestoredAndRewritten ==
  [][/\ (/\ Construct
         /\ data_file.state \in {"corrupt", "empty", "list"}
         /\ backup_file.state = "valid" /\ AllValid(backup_file))
          => /\ alarms' = AsSet(valid_alarms(backup_file.alarms, nextId))
             /\ data_file' = Document(alarms')
     /\ (/\ ModelConstruct
         /\ data_file.state \in {"corrupt", "empty", "valid"}
         /\ backup_file.state = "list" /\ AllValid(backup_file))
          => /\ model_alarms' = Some(valid_alarms(backup_file.alarms, nextId))
             /\ data_file' = ListDump(model_alarms'[1])]_vars

\* C27: whatever the two files hold, the load lets no exception out; when
\* alarms.json is missing the set is empty, and when neither file holds a
\* parseable document of the shape the loader expects the set is empty.
\* Stated for the controller's load and for AlarmModel's.
C27_LoadNeverRaises ==
  [][/\ Construct
          => /\ ~raised'
             /\ pc' = "check"
             /\ data_file.state = "absent" => alarms' = <<>>
             /\ (data_file.state # "valid" /\ backup_file.state # "valid") => alarms' = <<>>
     /\ ModelConstruct
          => /\ ~raised'
             /\ data_file.state = "absent" => model_alarms' = Some(<<>>)
             /\ (data_file.state # "list" /\ backup_file.state # "list")
                  => model_alarms' = Some(<<>>)]_vars

\* the controller has been constructed over two unparseable files, and the
\* poll loop is about to start
C27_Witness ==
  /\ call.op = "AlarmController"
  /\ pc = "check"
  /\ data_file = Corrupt
  /\ backup_file = Corrupt
  /\ alarms = <<>>

\* C28: once alarms.json or alarms.json.bak holds a complete valid document,
\* at least one of the two holds one after every later save, by a controller
\* call or at the end of a poll iteration, also when writes fail part-way.
C28_OneFileStaysValid ==
  [][(data_file.state = "valid" \/ backup_file.state = "valid")
       => (data_file'.state = "valid" \/ backup_file'.state = "valid")]_vars

\* C29: whenever a save runs while alarms.json exists, alarms.json.bak holds
\* afterwards exactly what alarms.json held just before the save, and
\* alarms.json is written; for the controller's save (here at the end of a
\* poll iteration) and for AlarmModel's (here in add_alarm).
C29_BackupMirrorsPrevious ==
  [][/\ (PollStep /\ Completes(alarms, now) /\ data_file.state # "absent")
          => /\ backup_file' = data_file
             /\ data_file' = Document(alarms')
     /\ (CallStep("AlarmModel.add_alarm") /\ data_file.state # "absent")
          => /\ backup_file' = data_file
             /\ data_file' = ListDump(model_alarms'[1])]_vars

\* ------------------------------------------------------------------ stop
\* `while not self.stop_checking` that never sees the flag
LoopTest_IgnoreFlag ==
  /\ pc = "check"
  /\ pc' = "body"
  /\ UNCHANGED <<alarms, nextId, now, current_time, triggered, call, calls, phase, fires,
                 data_file, disk, audio, on_alarm_stopped, stopped_args, upd,
                 backup_file, stop_checking, model_alarms, raised, data, decoded>>
  /\ UNCHANGED <<poll, broken, notified>>

\* `while not self.stop_checking`, taken by itself: the poll thread reads the
\* flag and either enters the iteration or leaves the loop. (CheckAlarms
\* taken at "check" is this test and the iteration in one step.)
LoopTest ==
  /\ pc = "check"
  /\ pc' = IF stop_checking THEN "done" ELSE "body"
  /\ UNCHANGED <<alarms, nextId, now, current_time, triggered, call, calls, phase, fires,
                 data_file, disk, audio, on_alarm_stopped, stopped_args, upd,
                 backup_file, stop_checking, model_alarms, raised, data, decoded>>
  /\ UNCHANGED <<poll, broken, notified>>

\* stop(): sets the flag and silences the managers; it neither joins the poll
\* thread nor waits for it. The clock of the model ends at MaxNow, so a stop
\* is taken while the clock can still advance.
Stop ==
  /\ calls < MaxCalls
  /\ calls' = calls + 1
  /\ upd = None
  /\ now < MaxNow
  /\ stop_checking' = TRUE
  /\ audio' = IF broken THEN audio ELSE StopAudio
  /\ call' = [op |-> "stop", id |-> 0, time |-> None, ret |-> "None", pre |-> None]
  /\ stopped_args' = <<>>
  /\ UNCHANGED <<alarms, nextId, now, pc, current_time, triggered, phase, fires,
                 data_file, disk, on_alarm_stopped, upd,
                 backup_file, model_alarms, raised, data, decoded>>
  /\ UNCHANGED <<poll, broken, notified>>

\* alarms are added and snoozed while the poll thread runs and stop() is called
StopNext ==
  \/ \E t \in Padded, r \in RepeatChoices : AddAlarm(t, "", r, TRUE, MaxSnoozeDuration, None)
  \/ \E id \in AlarmIds : SnoozeAlarm(id)
  \/ Stop
  \/ LoopTest
  \/ CheckAlarms
  \/ Tick

StopSpec == Init /\ [][StopNext]_vars

\* the poll thread is scheduled, and the 30 s wait ends
StopFairSpec == StopSpec /\ WF_vars(LoopTest) /\ WF_vars(CheckAlarms) /\ WF_vars(Tick)

\* C21: once stop() has returned, no sound, vibration or notification is
\* active, and none becomes active later, however stop() interleaves with a
\* poll iteration in flight.
C21_SilentAfterStop == stop_checking => audio = Silent

\* C22: after stop() has set the flag the poll loop ends: it finishes at most
\* the iteration in flight, sees the flag at its next loop test and starts no
\* further iteration, and once ended it stays ended; stop() returns also
\* when nothing is ringing.
C22_LoopTerminates ==
  /\ stop_checking ~> (pc = "done")
  /\ [][(stop_checking /\ pc = "check") => pc' \in {"check", "done"}]_vars
  /\ [][pc = "done" => pc' = "done"]_vars

\* the loop has ended after a stop() that found nothing ringing, having
\* fired an alarm before
C22_Witness ==
  /\ pc = "done"
  /\ stop_checking
  /\ audio = Silent
  /\ \E id \in Known : phase[id] = "fired"

ModelNext ==
  \/ ModelConstruct
  \/ \E a \in PlainObjects : ModelAddAlarm(a)
  \/ \E d \in {"ok", "denied", "torn"} : DiskChange(d)

ModelSpec == StoreInit /\ [][ModelNext]_vars

\* C40: in AlarmModel an add_alarm whose save_alarms fails leaves the list
\* as the operation produced it: the list before the call with the new alarm
\* appended, neither reverted nor replaced by the backup's content or by an
\* empty list.
C40_FailedSaveKeepsMutation ==
  [][(CallStep("AlarmModel.add_alarm") /\ disk # "ok")
       => \E a \in PlainObjects :
            model_alarms' = Some(Append(model_alarms[1], [id |-> nextId, alarm |-> a]))]_vars


\* --------------------------------------------------------------- restart
\* The process ends and, dt ticks later, a new AlarmController is built:
\* __init__ starts from an empty dictionary, new collaborators, no callbacks
\* and stop_checking False, loads the store and starts the poll thread.
\* While the process is down nothing but the clock moves.
Restart(dt) ==
  /\ calls < MaxCalls
  /\ calls' = calls + 1
  /\ pc \in {"check", "wait"}
  /\ now + dt <= MaxNow
  /\ now' = now + dt
  /\ LET r == load_alarms
     IN /\ alarms' = r.alarms
        /\ nextId' = Unused(r.nextId, DOMAIN r.alarms)
        /\ raised' = r.raised
        /\ pc' = IF r.raised THEN "new" ELSE "check"
        /\ phase' = [id \in DOMAIN r.alarms |-> "quiet"]
        /\ fires' = [id \in DOMAIN r.alarms |-> 0]
  /\ audio' = Silent
  /\ on_alarm_stopped' = FALSE
  /\ stopped_args' = <<>>
  /\ upd' = None
  /\ stop_checking' = FALSE
  /\ call' = [op |-> "restart", id |-> 0, time |-> None, ret |-> "None", pre |-> None]
  /\ UNCHANGED <<current_time, triggered, data_file, backup_file, disk, model_alarms,
                 data, decoded>>
  /\ UNCHANGED <<poll, broken, notified>>

MaxDowntime == 2

RestartNext ==
  \/ \E t \in Padded, r \in RepeatChoices : AddAlarm(t, "", r, TRUE, MaxSnoozeDuration, None)
  \/ \E id \in AlarmIds : SnoozeAlarm(id)
  \/ \E dt \in 0..MaxDowntime : Restart(dt)
  \/ CheckAlarms
  \/ Tick

RestartSpec == Init /\ [][RestartNext]_vars

\* the record of alarm id in alarms.json is what to_dict() gives for it now
Persisted(id) ==
  /\ data_file.state = "valid"
  /\ \E i \in DOMAIN data_file.alarms : data_file.alarms[i] = to_dict(id, alarms[id])

\* C39: a restart while an enabled alarm has a pending next_trigger that
\* snooze_alarm persisted loads the alarm with the same next_trigger and
\* snooze_count, and the first poll iteration that runs with now >=
\* next_trigger fires it through the snooze path and clears next_trigger,
\* also when next_trigger was already in the past when the store was loaded.
C39_SnoozeSurvivesRestart ==
  /\ [][CallStep("restart")
          => \A id \in Known :
               (alarms[id].enabled /\ alarms[id].next_trigger # None /\ Persisted(id))
                 => /\ id \in DOMAIN alarms'
                    /\ alarms'[id].next_trigger = alarms[id].next_trigger
                    /\ alarms'[id].snooze_count = alarms[id].snooze_count]_vars
  /\ [][PollStep
          => \A id \in Known :
               (/\ alarms[id].enabled
                /\ alarms[id].next_trigger # None
                /\ now >= alarms[id].next_trigger[1])
                 => /\ \E i \in DOMAIN triggered' :
                         triggered'[i] = [id |-> id, path |-> "snooze"]
                    /\ alarms'[id].next_trigger = None]_vars

\* the restart has just loaded an enabled, snoozed alarm whose next_trigger
\* was already in the past, and the poll thread is about to run
C39_Witness ==
  /\ call.op = "restart"
  /\ pc = "check"
  /\ \E id \in Known :
       /\ alarms[id].enabled
       /\ alarms[id].snooze_count > 0
       /\ alarms[id].next_trigger # None
       /\ now > alarms[id].next_trigger[1]
       /\ Persisted(id)


\* ------------------------------------------------- errors inside the loop
\* the poll thread with everything that makes an iteration fail: alarm
\* objects whose next_trigger cannot be compared with now, and a disk that
\* refuses or tears the end-of-iteration save
LoopNext ==
  \/ \E a \in {o \in AlarmObjects : o.time = strftime(0) /\ o.label = ""} :
        AddAlarmObject(a, None)
  \/ \E d \in DiskStates : DiskChange(d)
  \/ Stop
  \/ LoopTest
  \/ CheckAlarms
  \/ Tick

LoopSpec == Init /\ [][LoopNext]_vars

\* the thread is scheduled and the 30 s wait returns
LoopFairSpec == LoopSpec /\ WF_vars(LoopTest) /\ WF_vars(CheckAlarms) /\ WF_vars(Tick)

CollabChange(b) ==
  /\ broken # b
  /\ broken' = b
  /\ UNCHANGED <<alarms, nextId, now, pc, current_time, triggered, call, calls, phase, fires,
                 data_file, disk, audio, on_alarm_stopped, stopped_args, upd, backup_file,
                 stop_checking, model_alarms, raised, data, decoded, poll, notified>>

CollabNext ==
  \/ \E t \in Padded, r \in RepeatChoices : AddAlarm(t, "", r, TRUE, MaxSnoozeDuration, None)
  \/ \E id \in AlarmIds : StopAlarm(id)
  \/ \E id \in AlarmIds : SnoozeAlarm(id)
  \/ \E b \in BOOLEAN : CollabChange(b)
  \/ CheckAlarms
  \/ Tick

CollabSpec == Init /\ [][CollabNext]_vars

\* C37: a failure raised by the audio or notification manager never fails
\* the controller operation that called it: stop_alarm on a known id still
\* resets snooze_count and next_trigger and saves, snooze_alarm on a known
\* id still sets next_trigger, counts the snooze and saves, and every
\* _trigger_alarm call of a poll iteration still invokes on_alarm_triggered.
C37_CollaboratorFailureHarmless ==
  [][/\ (CallStep("stop_alarm") /\ call'.id \in Known)
          => /\ alarms'[call'.id].snooze_count = 0
             /\ alarms'[call'.id].next_trigger = None
             /\ data_file' = Document(alarms')
     /\ (CallStep("snooze_alarm") /\ call'.id \in Known)
          => /\ alarms'[call'.id].snooze_count = alarms[call'.id].snooze_count + 1
             /\ alarms'[call'.id].next_trigger # None
             /\ data_file' = Document(alarms')
     /\ PollStep
          => notified' = [i \in DOMAIN triggered' |-> triggered'[i].id]]_vars


\* ------------------------------------------ the poll thread, statement-wise
\* _check_alarms_loop runs on its own thread and the controller holds no
\* lock, so a controller call on the UI thread can run between any two
\* statements of an iteration. The iteration below is the one of CheckAlarms
\* cut at the statements that read or write shared state.

\* `alarm`, the object the for loop holds
Cur == IF poll.obj # None THEN poll.obj[1] ELSE alarms[poll.last]

\* what the controller and the bookkeeping keep while the poll thread runs
PollFrame ==
  UNCHANGED <<nextId, now, call, calls, disk, on_alarm_stopped, stopped_args, upd,
              stop_checking, model_alarms, raised, data, decoded, broken>>

\* an exception inside the try block: the except clause prints it and the
\* thread goes to its wait, without the end-of-iteration save
PollAbort ==
  /\ pc' = "wait"
  /\ poll' = PollIdle

\* current_time = datetime.now(); the for loop makes its iterator
PollBegin ==
  /\ (pc = "check" /\ ~stop_checking) \/ pc = "body"
  /\ current_time' = now
  /\ triggered' = <<>>
  /\ notified' = <<>>
  /\ poll' = [PollIdle EXCEPT !.size = Cardinality(Known)]
  /\ pc' = "next"
  /\ UNCHANGED <<alarms, phase, fires, audio, data_file, backup_file>>
  /\ PollFrame

\* the for loop fetches the next value: RuntimeError when the dictionary
\* changed size since the iterator was made, else the next entry in
\* insertion order, else the loop ends and the save follows
PollNext ==
  /\ pc = "next"
  /\ LET rest == {id \in Known : id > poll.last}
     IN IF Cardinality(Known) # poll.size THEN PollAbort
        ELSE IF rest = {}
          THEN /\ pc' = "save"
               /\ poll' = [poll EXCEPT !.obj = None, !.fire = "none"]
        ELSE /\ pc' = "enabled"
             /\ poll' = [poll EXCEPT !.last = CHOOSE id \in rest : \A j \in rest : id <= j,
                                     !.obj = None, !.fire = "none"]
  /\ UNCHANGED <<alarms, current_time, triggered, notified, phase, fires, audio,
                 data_file, backup_file>>
  /\ PollFrame

\* if not alarm.enabled: continue
PollEnabled ==
  /\ pc = "enabled"
  /\ pc' = IF Cur.enabled THEN "snoozed" ELSE "next"
  /\ UNCHANGED <<alarms, current_time, triggered, notified, phase, fires, audio,
                 data_file, backup_file, poll>>
  /\ PollFrame

\* if alarm.next_trigger:
PollSnoozed ==
  /\ pc = "snoozed"
  /\ pc' = IF Cur.next_trigger # None THEN "compare" ELSE "regular"
  /\ UNCHANGED <<alarms, current_time, triggered, notified, phase, fires, audio,
                 data_file, backup_file, poll>>
  /\ PollFrame

\* if current_time >= alarm.next_trigger: should_trigger = True
\* TypeError when next_trigger is None by now or is offset-aware
PollCompare ==
  /\ pc = "compare"
  /\ LET nt == Cur.next_trigger
     IN IF nt = None \/ Incomparable(nt) THEN PollAbort
        ELSE IF current_time >= nt[1]
          THEN /\ pc' = "clear"
               /\ poll' = [poll EXCEPT !.fire = "snooze"]
        ELSE /\ pc' = "next"
             /\ poll' = poll
  /\ UNCHANGED <<alarms, current_time, triggered, notified, phase, fires, audio,
                 data_file, backup_file>>
  /\ PollFrame

\* the poll thread assigns a to the fields of the object it holds
Assign(a) ==
  IF poll.obj # None
    THEN /\ poll' = [poll EXCEPT !.obj = Some(a)]
         /\ alarms' = alarms
    ELSE /\ alarms' = [alarms EXCEPT ![poll.last] = a]
         /\ poll' = poll

\* alarm.next_trigger = None  # Clear snooze
PollClear ==
  /\ pc = "clear"
  /\ Assign([Cur EXCEPT !.next_trigger = None])
  /\ pc' = "trigger"
  /\ UNCHANGED <<current_time, triggered, notified, phase, fires, audio,
                 data_file, backup_file>>
  /\ PollFrame

\* elif alarm.time == current_time_str: the repeating and the one-time case
PollRegular ==
  /\ pc = "regular"
  /\ LET a == Cur
     IN IF a.time = strftime(current_time)
          THEN IF a.repeat_days # {}
                 THEN /\ pc' = IF weekday(current_time) \in a.repeat_days
                                 THEN "trigger" ELSE "next"
                      /\ poll' = [poll EXCEPT !.fire = "regular"]
                      /\ alarms' = alarms
                 ELSE /\ pc' = "trigger"
                      /\ poll.obj # None
                           => /\ poll' = [poll EXCEPT !.obj = Some([a EXCEPT !.enabled = FALSE]),
                                                      !.fire = "regular"]
                              /\ alarms' = alarms
                      /\ poll.obj = None
                           => /\ poll' = [poll EXCEPT !.fire = "regular"]
                              /\ alarms' = [alarms EXCEPT ![poll.last] =
                                              [a EXCEPT !.enabled = FALSE]]
          ELSE /\ pc' = "next"
               /\ UNCHANGED <<alarms, poll>>
  /\ UNCHANGED <<current_time, triggered, notified, phase, fires, audio,
                 data_file, backup_file>>
  /\ PollFrame

\* if should_trigger: self._trigger_alarm(alarm)
PollTrigger ==
  /\ pc = "trigger"
  /\ triggered' = Append(triggered, [id |-> poll.last, path |-> poll.fire])
  /\ audio' = IF broken THEN audio ELSE Ring(audio, Cur)
  /\ notified' = IF broken THEN notified ELSE Append(notified, poll.last)
  /\ phase' = [id \in DOMAIN phase |-> IF id = poll.last THEN "fired" ELSE phase[id]]
  /\ fires' = [id \in DOMAIN fires |-> IF id = poll.last THEN fires[id] + 1 ELSE fires[id]]
  /\ pc' = "next"
  /\ UNCHANGED <<alarms, current_time, data_file, backup_file, poll>>
  /\ PollFrame

\* _save_alarms(), first half: the copy to alarms.json.bak and the document
\* built from the dictionary
PollSnapshot ==
  /\ pc = "save"
  /\ backup_file' = BackedUp
  /\ poll' = [poll EXCEPT !.doc = Some(Document(alarms))]
  /\ pc' = "write"
  /\ UNCHANGED <<alarms, current_time, triggered, notified, phase, fires, audio, data_file>>
  /\ PollFrame

\* _save_alarms(), second half: open(..., 'w') and json.dump(data, f)
PollWrite ==
  /\ pc = "write"
  /\ data_file' = CASE disk = "ok" -> poll.doc[1]
                    [] disk = "denied" -> data_file
                    [] disk = "torn" -> Corrupt
  /\ poll' = PollIdle
  /\ pc' = "wait"
  /\ UNCHANGED <<alarms, current_time, triggered, notified, phase, fires, audio,
                 backup_file>>
  /\ PollFrame

FineNext ==
  \/ \E t \in Padded, r \in RepeatChoices : AddAlarm(t, "", r, TRUE, MaxSnoozeDuration, None)
  \/ \E id \in AlarmIds : DeleteAlarm(id)
  \/ \E id \in AlarmIds : ToggleAlarm(id)
  \/ \E id \in AlarmIds : StopAlarm(id)
  \/ \E id \in AlarmIds : SnoozeAlarm(id)
  \/ PollBegin
  \/ PollNext
  \/ PollEnabled
  \/ PollSnoozed
  \/ PollCompare
  \/ PollClear
  \/ PollRegular
  \/ PollTrigger
  \/ PollSnapshot
  \/ PollWrite
  \/ Tick

FineSpec == Init /\ [][FineNext]_vars


\* a step of the poll thread or of the clock: no controller call
Engine == calls' = calls

\* the step is a _trigger_alarm call for alarm id
Fires(id) ==
  /\ Len(triggered') = Len(triggered) + 1
  /\ triggered'[Len(triggered')].id = id

\* C31: once toggle_alarm(id) has returned after disabling the alarm, the
\* poll thread neither fires nor changes that alarm, also when its iteration
\* was already under way when the toggle ran.
C31_DisabledLeftAlone ==
  [][(/\ Engine
      /\ call.op = "toggle_alarm"
      /\ call.ret = "True"
      /\ call.pre # None
      /\ call.pre[1].enabled
      /\ call.id \in Known)
       => /\ alarms'[call.id] = alarms[call.id]
          /\ ~Fires(call.id)]_vars

\* C32: once delete_alarm(id) has returned True, the poll thread never calls
\* _trigger_alarm for that id and alarms.json never holds a record of it
\* again, also when its iteration was already under way.
C32_DeletedStaysGone ==
  [][(/\ Engine
      /\ call.op = "delete_alarm"
      /\ call.ret = "True")
       => /\ ~Fires(call.id)
          /\ \A i \in DOMAIN data_file'.alarms : data_file'.alarms[i].id # call.id]_vars

\* C33: snooze_alarm on a known id sets next_trigger to a time after the
\* call, and while no other controller call follows, the poll thread clears
\* it only in an iteration whose timestamp is at or after it: an iteration
\* that decided on an older next_trigger never erases the new one.
C33_SnoozeNotErased ==
  [][/\ (CallStep("snooze_alarm") /\ call'.id \in Known)
          => /\ alarms'[call'.id].next_trigger # None
             /\ alarms'[call'.id].next_trigger[1] > now
     /\ (/\ Engine
         /\ call.op = "snooze_alarm"
         /\ call.id \in Known
         /\ alarms[call.id].next_trigger # None
         /\ alarms'[call.id].next_trigger = None)
          => current_time >= alarms[call.id].next_trigger[1]]_vars

\* C34: no controller call running between the statements of a poll
\* iteration makes the iteration abort: the thread reaches its wait only
\* through the end-of-iteration save, after the for loop has gone through
\* every alarm.
C34_IterationNeverAborts ==
  [][(pc # "wait" /\ pc' = "wait") => pc = "write"]_vars

\* C35: whenever no controller call and no poll iteration is in progress
\* and every write has succeeded, alarms.json holds exactly the alarms in
\* memory, field for field: no save writes a document older than the one
\* in the file.
C35_StoreMirrorsMemory ==
  (pc \in {"check", "wait"} /\ data_file.state # "absent") => data_file = Document(alarms)

====
